---------------------------- MODULE Spec2Model ----------------------------
(***************************************************************************)
(* Conversions-API event pipeline: the per-event HTTP handlers, the shared *)
(* dispatcher sendServerEvent (identity resolution, geo enrichment, PII    *)
(* hashing, outbound POST, response interpretation).                       *)
(*                                                                         *)
(* JavaScript values are tagged records.  A string is S(c) with c the      *)
(* sequence of its characters, so that trim / split / toLowerCase are      *)
(* computed and not assumed.  An object is O(f) with f a function from its *)
(* own keys to values; a key that is absent is not in DOMAIN f, a key that *)
(* is present with the value undefined maps to Undefined.                  *)
(***************************************************************************)
EXTENDS Integers, Sequences, FiniteSets, TLC

VARIABLES
    env,        \* process.env as read once at module load
    pc,         \* position of the request being handled
    request,    \* the inbound NextRequest (headers, cookies, body)
    call,       \* arguments of the current sendServerEvent invocation
    local,      \* locals of sendServerEvent (fbc, tempUrlParams, user data, payload)
    network,    \* every outbound fetch issued so far, in order
    trail,      \* the pipeline steps completed so far, in order
    result,     \* what sendServerEvent returned, or NoResult
    thrown,     \* exception propagating out of the current frame, or NoError
    response,   \* the handler's HTTP response, or NoResponse
    parked      \* requests suspended at an await while the one above runs

vars == <<env, pc, request, call, local, network, trail, result, thrown, response, parked>>

----------------------------------------------------------------------------
(* JavaScript values *)

Undefined == [t |-> "undefined"]
Null == [t |-> "null"]
S(c) == [t |-> "string", v |-> c]
\* a number is kept in hundredths, so that prices and the 0.01 tolerance are exact
Hundredths(h) == [t |-> "number", v |-> h]

\* the integer n
N(n) == Hundredths(n * 100)
B(b) == [t |-> "boolean", v |-> b]
L(s) == [t |-> "array", v |-> s]
O(f) == [t |-> "object", v |-> f]

\* the number that is not one: falsy, written as null by JSON.stringify
NaN == [t |-> "NaN"]

EmptyObject == O(<<>>)

IsString(x) == x.t = "string"
IsObject(x) == x.t = "object"
IsArray(x) == x.t = "array"

\* JavaScript truthiness: undefined, null, "", 0 and false are falsy.
Truthy(x) ==
    CASE x.t = "undefined" -> FALSE
      [] x.t = "null" -> FALSE
      [] x.t = "string" -> Len(x.v) > 0
      [] x.t = "number" -> x.v # 0
      [] x.t = "boolean" -> x.v
      [] x.t = "NaN" -> FALSE
      [] OTHER -> TRUE

\* a || b
Or(a, b) == IF Truthy(a) THEN a ELSE b

\* o.k on an object (undefined for a key the object does not own)
Get(o, k) == IF IsObject(o) /\ k \in DOMAIN o.v THEN o.v[k] ELSE Undefined

\* o?.k
GetOpt(o, k) == Get(o, k)

\* { ...a, ...b } on the key/value functions of two objects
Merge(f, g) == [k \in (DOMAIN f) \cup (DOMAIN g) |-> IF k \in DOMAIN g THEN g[k] ELSE f[k]]

\* the own enumerable properties a spread copies: none for undefined / null
Props(x) == IF IsObject(x) THEN x.v ELSE <<>>

\* delete o.k
Delete(f, k) == [j \in (DOMAIN f) \ {k} |-> f[j]]

\* o.k = v
Put(f, k, v) == Merge(f, [j \in {k} |-> v])

----------------------------------------------------------------------------
(* Strings: sequences of characters over a small alphabet *)

Whitespace == {" "}
DigitChars == {"1", "9"}
LowerChars == {"a", "b"}
UpperChars == {"A", "B"}

toLowerCaseChar(c) == CASE c = "A" -> "a" [] c = "B" -> "b" [] OTHER -> c

\* String.prototype.toLowerCase
toLowerCase(c) == [i \in 1..Len(c) |-> toLowerCaseChar(c[i])]

RECURSIVE trimStart(_)
trimStart(c) == IF Len(c) > 0 /\ Head(c) \in Whitespace THEN trimStart(Tail(c)) ELSE c

RECURSIVE trimEnd(_)
trimEnd(c) ==
    IF Len(c) > 0 /\ c[Len(c)] \in Whitespace THEN trimEnd(SubSeq(c, 1, Len(c) - 1)) ELSE c

\* String.prototype.trim
trim(c) == trimEnd(trimStart(c))

\* s.replace(/<class>/g, ''): drop every character of the class
RECURSIVE removeChars(_, _)
removeChars(c, class) ==
    IF Len(c) = 0 THEN <<>>
    ELSE IF Head(c) \in class THEN removeChars(Tail(c), class)
    ELSE <<Head(c)>> \o removeChars(Tail(c), class)

\* s.replace(/<not class>/g, ''): keep only the characters of the class
RECURSIVE keepChars(_, _)
keepChars(c, class) ==
    IF Len(c) = 0 THEN <<>>
    ELSE IF Head(c) \in class THEN <<Head(c)>> \o keepChars(Tail(c), class)
    ELSE keepChars(Tail(c), class)

\* s.charAt(0)
charAt0(c) == IF Len(c) > 0 THEN <<c[1]>> ELSE <<>>

\* s.split(',')[0]
RECURSIVE splitCommaFirst(_)
splitCommaFirst(c) ==
    IF Len(c) = 0 \/ Head(c) = "," THEN <<>> ELSE <<Head(c)>> \o splitCommaFirst(Tail(c))

----------------------------------------------------------------------------
(* PII hasher *)

\* SHA-256 of the UTF-8 bytes as lowercase hex: a collision-free digest of its input
getHashedValue(value) == [t |-> "sha256hex", v |-> value]

SensitiveFields == {"em", "ph", "fn", "ln", "ge", "db", "ct", "st", "zp", "country"}

\* the per-field normalisation applied to an element before it is hashed
canonical(field, c) ==
    CASE field \in {"em", "fn", "ln", "country"} -> toLowerCase(trim(c))
      [] field \in {"ph", "db"} -> keepChars(c, DigitChars)
      [] field = "ge" -> charAt0(toLowerCase(trim(c)))
      [] field = "ct" -> removeChars(toLowerCase(trim(c)), Whitespace)
      [] field = "st" ->
            keepChars(toLowerCase(trim(c)), LowerChars \cup UpperChars \cup DigitChars)
      [] field = "zp" -> removeChars(trim(c), Whitespace)

\* `userData.f && userData.f.length > 0`
fieldIsHashed(x) == (IsArray(x) \/ IsString(x)) /\ Len(x.v) > 0

\* .map on a non-array, or .trim / .replace on a non-string element: TypeError
fieldThrows(x) ==
    fieldIsHashed(x) /\ (IsString(x) \/ \E i \in 1..Len(x.v) : ~IsString(x.v[i]))

\* only the first element hashed
hashField_FirstOnly(field, x) == L(<<getHashedValue(canonical(field, x.v[1].v))>>)

\* the elements hashed as they came, without normalisation
hashField_Raw(field, x) == L([i \in 1..Len(x.v) |-> getHashedValue(x.v[i].v)])

hashField(field, x) == L([i \in 1..Len(x.v) |-> getHashedValue(canonical(field, x.v[i].v))])

hashUserDataThrows(userData) ==
    \E f \in SensitiveFields \cap DOMAIN userData : fieldThrows(userData[f])

\* hashUserData hashing every non-empty array of the block, external_id included
hashUserData_EveryArray(userData) ==
    [k \in DOMAIN userData |->
        IF IsArray(userData[k]) /\ fieldIsHashed(userData[k])
        THEN hashField(IF k \in SensitiveFields THEN k ELSE "em", userData[k])
        ELSE userData[k]]

\* hashUserData leaving every field as it came
hashUserData_Skipped(userData) == userData

\* { ...userData } with every non-empty sensitive array replaced by its hashes
hashUserData(userData) ==
    [k \in DOMAIN userData |->
        IF k \in SensitiveFields /\ fieldIsHashed(userData[k])
        THEN hashField(k, userData[k])
        ELSE userData[k]]

----------------------------------------------------------------------------
(* Module-level configuration, read once from process.env *)

\* a string literal of the code, kept as one token
Text(m) == S(<<m>>)

DefaultDatasetId == Text("701320582382618")
DefaultAccessToken == Text("EAAVZA2wID1AEBO0...")

DATASET_ID == Or(env.FACEBOOK_DATASET_ID, DefaultDatasetId)
ACCESS_TOKEN == Or(env.FACEBOOK_ACCESS_TOKEN, DefaultAccessToken)
TEST_EVENT_CODE == env.FACEBOOK_TEST_EVENT_CODE
IPDATA_API_KEY == env.IPDATA_API_KEY

----------------------------------------------------------------------------
(* Geo enricher *)

\* what response.json() yields for a body that is not JSON: it throws
Unparseable == [t |-> "unparseable"]

\* the guard at the top of getGeolocationData: the lookup is attempted at all
geoCallsLookup(ipAddress) == Truthy(ipAddress) /\ Truthy(IPDATA_API_KEY)

\* `data.x ? [data.x] : undefined`
geoField(data, key) == IF Truthy(Get(data, key)) THEN L(<<Get(data, key)>>) ELSE Undefined

\* a lookup that answers with a made-up city whenever the call fails
geoResult_MadeUp(lookup) ==
    IF lookup.kind = "throws" \/ ~lookup.ok THEN [ct |-> L(<<S(<<"a">>)>>)] ELSE <<>>

\* the body of the try block once the fetch has settled with `lookup`
geoResult(lookup) ==
    IF lookup.kind = "throws" THEN <<>>
    ELSE IF ~lookup.ok THEN <<>>
    ELSE IF lookup.body = Unparseable THEN <<>>
    ELSE IF lookup.body = Null THEN <<>>
    ELSE IF Truthy(Get(lookup.body, "country_code")) /\ ~IsString(Get(lookup.body, "country_code"))
         THEN <<>>
    ELSE [ct |-> geoField(lookup.body, "city"),
          st |-> geoField(lookup.body, "region_code"),
          zp |-> geoField(lookup.body, "postal"),
          country |->
              IF Truthy(Get(lookup.body, "country_code"))
              THEN L(<<S(toLowerCase(Get(lookup.body, "country_code").v))>>)
              ELSE Undefined]

getGeolocationData(ipAddress, lookup) ==
    IF ~geoCallsLookup(ipAddress) THEN <<>> ELSE geoResult(lookup)

----------------------------------------------------------------------------
(* Event dispatcher: sendServerEvent *)

NoResult == [t |-> "none"]
NoError == [t |-> "none"]
NoResponse == [t |-> "none"]

TypeError(m) == [t |-> "error", name |-> "TypeError", message |-> Text(m)]
SyntaxError(m) == [t |-> "error", name |-> "SyntaxError", message |-> Text(m)]

NoLocal ==
    [eventTime |-> Undefined, clientIpAddress |-> Undefined, clientUserAgent |-> Undefined,
     fbcValueForUserData |-> Undefined, tempUrlParams |-> <<>>, tempCustomData |-> <<>>,
     enhancedUserData |-> <<>>, hashedUserData |-> <<>>, payload |-> Undefined]

\* the clock whatever override the caller gave
eventTimeOf_ClockOnly(event_time_override, now) == N(now)

\* event_time_override || Math.floor(Date.now() / 1000)
eventTimeOf(event_time_override, now) == Or(event_time_override, N(now))

\* request.headers.get('x-forwarded-for')?.split(',')[0].trim() || request.headers.get('x-real-ip')
clientIpAddressOf(headers) ==
    Or(IF IsString(headers.xForwardedFor)
       THEN S(trim(splitCommaFirst(headers.xForwardedFor.v)))
       ELSE Undefined,
       headers.xRealIp)

\* the explicit fbc preferred over the click id of the URL parameters
fbcValueForUserDataOf_ExplicitFirst(userData, customData, urlParameters) ==
    Or(GetOpt(userData, "fbc"), Get(urlParameters, "fbclid"))

\* the fbc chosen by the "robust fbclid handling" block
fbcValueForUserDataOf(userData, customData, urlParameters) ==
    IF Truthy(Get(urlParameters, "fbclid")) THEN Get(urlParameters, "fbclid")
    ELSE IF ~Truthy(GetOpt(userData, "fbc")) /\ Truthy(Get(customData, "fbclid"))
         THEN Get(customData, "fbclid")
    ELSE GetOpt(userData, "fbc")

\* tempUrlParams after the block: fbclid is deleted only when it was truthy
tempUrlParamsOf(urlParameters) ==
    IF Truthy(Get(urlParameters, "fbclid"))
    THEN Delete(Props(urlParameters), "fbclid")
    ELSE Props(urlParameters)

\* the caller's own network context kept over the one read from the headers
enhancedUserDataOf_CallerFirst(userData, clientIpAddress, clientUserAgent, fbc) ==
    Merge([client_ip_address |-> Or(clientIpAddress, Undefined),
           client_user_agent |-> Or(clientUserAgent, Undefined)],
          Props(userData))

\* tempCustomData after the block: an own fbclid key is always deleted
tempCustomDataOf(customData) == Delete(Props(customData), "fbclid")

enhancedUserDataOf(userData, clientIpAddress, clientUserAgent, fbc) ==
    LET base == Merge(Props(userData),
                      [client_ip_address |-> Or(clientIpAddress, Undefined),
                       client_user_agent |-> Or(clientUserAgent, Undefined)])
    IN  IF Truthy(fbc) THEN Put(base, "fbc", fbc) ELSE base

\* finalCustomData: the cleaned custom data with the remaining URL parameters merged over it
finalCustomDataOf(tempCustomData, tempUrlParams) ==
    IF DOMAIN tempUrlParams # {} THEN Merge(tempCustomData, tempUrlParams) ELSE tempCustomData

payloadOf(eventName, eventTime, hashedUserData, finalCustomData, eventSourceUrl, eventId) ==
    LET base == [event_name |-> Text(eventName),
                 event_time |-> eventTime,
                 user_data |-> O(hashedUserData),
                 custom_data |-> O(finalCustomData),
                 action_source |-> Text("website"),
                 event_source_url |-> Or(eventSourceUrl, request.nextUrl)]
    IN  IF Truthy(eventId) THEN Put(base, "event_id", eventId) ELSE base

\* JSON.stringify: keys holding undefined are dropped, undefined array elements become null
RECURSIVE toJSON(_)
toJSON(x) ==
    CASE x.t = "object" ->
            O([k \in {j \in DOMAIN x.v : x.v[j] # Undefined} |-> toJSON(x.v[k])])
      [] x.t = "array" ->
            L([i \in 1..Len(x.v) |-> IF x.v[i] = Undefined THEN Null ELSE toJSON(x.v[i])])
      [] x.t = "NaN" -> Null
      [] OTHER -> x

\* a batch that carries the event twice
postBodyOf_TwoEvents(payload) == toJSON(O([data |-> L(<<O(payload), O(payload)>>)]))

\* body of the outbound POST
postBodyOf(payload) ==
    toJSON(O(Merge([data |-> L(<<O(payload)>>)],
                   IF Truthy(TEST_EVENT_CODE)
                   THEN [test_event_code |-> TEST_EVENT_CODE]
                   ELSE <<>>)))

\* the event id without its 'N/A' default
eventIdOrNA_Raw(payload) == Get(O(payload), "event_id")

\* `payload?.event_id || 'N/A'`
eventIdOrNA(payload) == Or(Get(O(payload), "event_id"), Text("N/A"))

\* outcomeOf with an unconfirmed 2xx acknowledgement reported as a hard error
outcomeOf_WarningAsError(post, payload) ==
    IF post.kind = "throws" \/ post.body = Unparseable \/ post.body = Null
    THEN [success |-> B(FALSE), error |-> Text("exception"), event_id |-> eventIdOrNA(payload)]
    ELSE IF post.ok /\ (Get(post.body, "events_received") = N(1)
                        \/ Truthy(Get(post.body, "fbtrace_id")))
    THEN [success |-> B(TRUE), fbtrace_id |-> Get(post.body, "fbtrace_id"),
          event_id |-> Get(O(payload), "event_id")]
    ELSE [success |-> B(FALSE), error |-> post.body, event_id |-> Get(O(payload), "event_id")]

\* outcomeOf reporting every settled call as a failure without a cause
outcomeOf_BareFailure(post, payload) ==
    [success |-> B(FALSE), event_id |-> eventIdOrNA(payload)]

\* the try / catch around the fetch: what sendServerEvent returns for a settled call
outcomeOf(post, payload) ==
    IF post.kind = "throws"
    THEN [success |-> B(FALSE), error |-> post.message, event_id |-> eventIdOrNA(payload)]
    ELSE IF post.body = Unparseable
    THEN [success |-> B(FALSE), error |-> Text("Unexpected token in JSON"),
          event_id |-> eventIdOrNA(payload)]
    ELSE IF ~post.ok
    THEN [success |-> B(FALSE), error |-> post.body, event_id |-> Get(O(payload), "event_id")]
    ELSE IF post.body = Null
    THEN [success |-> B(FALSE), error |-> Text("Cannot read properties of null"),
          event_id |-> eventIdOrNA(payload)]
    ELSE IF Get(post.body, "events_received") = N(1) \/ Truthy(Get(post.body, "fbtrace_id"))
    THEN [success |-> B(TRUE), fbtrace_id |-> Get(post.body, "fbtrace_id"),
          event_id |-> Get(O(payload), "event_id")]
    ELSE [success |-> B(FALSE), warning |-> post.body, event_id |-> Get(O(payload), "event_id")]

----------------------------------------------------------------------------
(* Schema / validators.  Numbers are in hundredths, products of two numbers *)
(* in 1/10000.                                                             *)

toUpperCaseChar(c) == CASE c = "a" -> "A" [] c = "b" -> "B" [] OTHER -> c

\* String.prototype.toUpperCase
toUpperCase(c) == [i \in 1..Len(c) |-> toUpperCaseChar(c[i])]

IsNumber(x) == x.t = "number"

\* Number.isInteger
isInteger(x) == IsNumber(x) /\ x.v % 100 = 0

\* parseInt of a number
parseInt(x) == N(x.v \div 100)

Abs(n) == IF n < 0 THEN 0 - n ELSE n

\* errors.push(msg) when cond
Err(cond, msg) == IF cond THEN <<Text(msg)>> ELSE <<>>

\* errors.push(`...[${index}]...`) when cond
ErrAt(cond, msg, index) == IF cond THEN <<S(<<msg, ToString(index)>>)>> ELSE <<>>

RECURSIVE Flatten(_)
Flatten(ss) == IF Len(ss) = 0 THEN <<>> ELSE Head(ss) \o Flatten(Tail(ss))

\* `!x || !Array.isArray(x) || x.length === 0`
notNonEmptyArray(x) == ~Truthy(x) \/ ~IsArray(x) \/ Len(x.v) = 0

\* `!x || typeof x !== 'string' || x.trim().length === 0`
notNonEmptyString(x) == ~Truthy(x) \/ ~IsString(x) \/ Len(trim(x.v)) = 0

\* reading a property of null or undefined throws a TypeError
propertyReadThrows(x) == x = Null \/ x = Undefined

\* an element of contents the forEach callback cannot read
contentsThrow(data) ==
    /\ Truthy(Get(data, "contents")) /\ IsArray(Get(data, "contents"))
    /\ \E i \in 1..Len(Get(data, "contents").v) : propertyReadThrows(Get(data, "contents").v[i])

\* the three per-item checks; the validators differ in how strict they are
itemErrors(item, index, trimId, minQuantity, integerQuantity) ==
    ErrAt(IF trimId THEN notNonEmptyString(Get(item, "id"))
          ELSE ~Truthy(Get(item, "id")) \/ ~IsString(Get(item, "id")),
          "contents.id", index)
    \o ErrAt(\/ ~IsNumber(Get(item, "quantity"))
             \/ Get(item, "quantity").v < minQuantity
             \/ (integerQuantity /\ ~isInteger(Get(item, "quantity"))),
             "contents.quantity", index)
    \o ErrAt(~IsNumber(Get(item, "item_price")) \/ Get(item, "item_price").v < 0,
             "contents.item_price", index)

contentsErrors(contents, trimId, minQuantity, integerQuantity) ==
    Flatten([i \in 1..Len(contents.v) |->
                itemErrors(contents.v[i], i - 1, trimId, minQuantity, integerQuantity)])

\* a sum over contents is NaN as soon as one operand is not a number
quantityIsNaN(contents) ==
    \E i \in 1..Len(contents.v) : ~IsNumber(Get(contents.v[i], "quantity"))

totalIsNaN(contents) ==
    \/ quantityIsNaN(contents)
    \/ \E i \in 1..Len(contents.v) : ~IsNumber(Get(contents.v[i], "item_price"))

RECURSIVE sumQuantity(_)
sumQuantity(items) ==
    IF Len(items) = 0 THEN 0 ELSE Get(Head(items), "quantity").v + sumQuantity(Tail(items))

\* sum of item_price * quantity, in 1/10000
RECURSIVE sumLineTotals(_)
sumLineTotals(items) ==
    IF Len(items) = 0 THEN 0
    ELSE Get(Head(items), "item_price").v * Get(Head(items), "quantity").v
         + sumLineTotals(Tail(items))

\* Math.abs(calculated - value) > 0.01
valueMismatchAbsolute(contents, value) == Abs(sumLineTotals(contents.v) - value.v * 100) > 100

\* Math.abs(value - calculated) > calculated * 0.01
valueMismatchRelative(contents, value) ==
    100 * Abs(value.v * 100 - sumLineTotals(contents.v)) > sumLineTotals(contents.v)

\* a count that may be off by one
quantityMismatch_Tolerant(contents, count) == Abs(sumQuantity(contents.v) - count.v) > 100

quantityMismatch(contents, count) == sumQuantity(contents.v) # count.v

\* the { id, quantity, item_price } every sanitizer but AddPaymentInfo builds
sanitizedItem(item) ==
    O([id |-> S(trim(Get(item, "id").v)), quantity |-> Get(item, "quantity"),
       item_price |-> Get(item, "item_price")])

sanitizedContents(contents) == L([i \in 1..Len(contents.v) |-> sanitizedItem(contents.v[i])])

\* ids.map(id => String(id).trim())
sanitizedIds(ids) == L([i \in 1..Len(ids.v) |-> S(trim(ids.v[i].v))])

\* contents.map(item => item.id)
idsOfContents(contents) == L([i \in 1..Len(contents.v) |-> Get(contents.v[i], "id")])

Invalid(errors) == [threw |-> FALSE, isValid |-> FALSE, errors |-> L(errors)]
Valid(sanitizedData) ==
    [threw |-> FALSE, isValid |-> TRUE, errors |-> L(<<>>), sanitizedData |-> O(sanitizedData)]
Threw == [threw |-> TRUE]

contentIdsErrors(data) ==
    IF notNonEmptyArray(Get(data, "content_ids")) THEN Err(TRUE, "content_ids")
    ELSE Flatten([i \in 1..Len(Get(data, "content_ids").v) |->
                    ErrAt(notNonEmptyString(Get(data, "content_ids").v[i]), "content_ids", i - 1)])

validateEcommerceViewContentData(data) ==
    IF ~Truthy(data) THEN Invalid(Err(TRUE, "customData"))
    ELSE IF contentsThrow(data) THEN Threw
    ELSE LET errors ==
                Err(notNonEmptyArray(Get(data, "content_ids")), "content_ids")
                \o Err(notNonEmptyString(Get(data, "content_name")), "content_name")
                \o Err(~IsNumber(Get(data, "value")) \/ Get(data, "value").v < 0, "value")
                \o Err(~Truthy(Get(data, "currency")) \/ ~IsString(Get(data, "currency")),
                       "currency")
                \o (IF Truthy(Get(data, "contents")) /\ IsArray(Get(data, "contents"))
                    THEN contentsErrors(Get(data, "contents"), FALSE, 1, FALSE)
                    ELSE <<>>)
         IN  IF Len(errors) > 0 THEN Invalid(errors)
             ELSE Valid(Merge(
                    [content_ids |-> sanitizedIds(Get(data, "content_ids")),
                     content_name |-> S(trim(Get(data, "content_name").v)),
                     content_type |-> Text("product"),
                     value |-> Get(data, "value"),
                     currency |-> S(toUpperCase(Get(data, "currency").v))],
                    IF Truthy(Get(data, "contents"))
                    THEN [contents |-> Get(data, "contents")] ELSE <<>>))

validateEcommerceAddToCartData(data) ==
    IF ~Truthy(data) THEN Invalid(Err(TRUE, "customData"))
    ELSE IF contentsThrow(data) THEN Threw
    ELSE LET contents == Get(data, "contents")
             hasContents == Truthy(contents) /\ IsArray(contents) /\ Len(contents.v) > 0
             errors ==
                contentIdsErrors(data)
                \o Err(notNonEmptyString(Get(data, "content_name")), "content_name")
                \o Err(~IsNumber(Get(data, "value")) \/ Get(data, "value").v <= 0, "value")
                \o Err(notNonEmptyString(Get(data, "currency"))
                       \/ Len(Get(data, "currency").v) # 3, "currency")
                \o Err(~IsNumber(Get(data, "quantity")) \/ Get(data, "quantity").v <= 0
                       \/ ~isInteger(Get(data, "quantity")), "quantity")
                \o (IF Truthy(contents) /\ IsArray(contents)
                    THEN contentsErrors(contents, TRUE, 1, TRUE) ELSE <<>>)
             crossErrors ==
                IF hasContents
                THEN Err(valueMismatchAbsolute(contents, Get(data, "value")), "value mismatch")
                     \o Err(quantityMismatch(contents, Get(data, "quantity")),
                            "quantity mismatch")
                ELSE <<>>
         IN  IF Len(errors) > 0 THEN Invalid(errors)
             ELSE IF Len(crossErrors) > 0 THEN Invalid(crossErrors)
             ELSE Valid(Merge(
                    [content_ids |-> sanitizedIds(Get(data, "content_ids")),
                     content_name |-> S(trim(Get(data, "content_name").v)),
                     content_type |-> Text("product"),
                     value |-> Get(data, "value"),
                     currency |-> S(toUpperCase(Get(data, "currency").v)),
                     quantity |-> Get(data, "quantity")],
                    IF hasContents THEN [contents |-> sanitizedContents(contents)] ELSE <<>>))

\* the checks InitiateCheckout, AddToWishlist and Purchase share on value, currency, num_items
cartFieldErrors(data, zeroValueAllowed) ==
    Err(~IsNumber(Get(data, "value"))
        \/ (IF zeroValueAllowed THEN Get(data, "value").v < 0 ELSE Get(data, "value").v <= 0),
        "value")
    \o Err(notNonEmptyString(Get(data, "currency")) \/ Len(Get(data, "currency").v) # 3,
           "currency")
    \o Err(~IsNumber(Get(data, "num_items")) \/ Get(data, "num_items").v <= 0
           \/ ~isInteger(Get(data, "num_items")), "num_items")

requiredContentsErrors(data) ==
    IF notNonEmptyArray(Get(data, "contents")) THEN Err(TRUE, "contents")
    ELSE contentsErrors(Get(data, "contents"), TRUE, 1, TRUE)

validateEcommerceCheckoutData(data) ==
    IF ~Truthy(data) THEN Invalid(Err(TRUE, "customData"))
    ELSE IF contentsThrow(data) THEN Threw
    ELSE LET contents == Get(data, "contents")
             errors == requiredContentsErrors(data) \o cartFieldErrors(data, FALSE)
             crossErrors ==
                Err(Abs(sumQuantity(contents.v) - Get(data, "num_items").v) > 0,
                    "num_items mismatch")
                \o Err(valueMismatchAbsolute(contents, Get(data, "value")), "value mismatch")
         IN  IF Len(errors) > 0 THEN Invalid(errors)
             ELSE IF Len(crossErrors) > 0 THEN Invalid(crossErrors)
             ELSE Valid([contents |-> sanitizedContents(contents),
                         value |-> Get(data, "value"),
                         currency |-> S(toUpperCase(Get(data, "currency").v)),
                         num_items |-> Get(data, "num_items"),
                         content_ids |-> sanitizedIds(Or(Get(data, "content_ids"),
                                                         idsOfContents(contents))),
                         content_type |-> Text("product")])

validateEcommerceAddToWishlistData(data) ==
    IF ~Truthy(data) THEN Invalid(Err(TRUE, "customData"))
    ELSE IF contentsThrow(data) THEN Threw
    ELSE LET contents == Get(data, "contents")
             errors ==
                contentIdsErrors(data)
                \o Err(notNonEmptyString(Get(data, "content_name")), "content_name")
                \o cartFieldErrors(data, TRUE)
                \o requiredContentsErrors(data)
             crossErrors ==
                Err(quantityMismatch(contents, Get(data, "num_items")), "num_items mismatch")
                \o Err(valueMismatchAbsolute(contents, Get(data, "value")), "value mismatch")
         IN  IF Len(errors) > 0 THEN Invalid(errors)
             ELSE IF Len(crossErrors) > 0 THEN Invalid(crossErrors)
             ELSE Valid([content_ids |-> sanitizedIds(Get(data, "content_ids")),
                         content_name |-> S(trim(Get(data, "content_name").v)),
                         content_type |-> Text("product"),
                         value |-> Get(data, "value"),
                         currency |-> S(toUpperCase(Get(data, "currency").v)),
                         num_items |-> Get(data, "num_items"),
                         contents |-> sanitizedContents(contents)])

\* data.content_name || (one product ? title || `Product ${id}` : `Order with ${n} products`)
purchaseContentName(data) ==
    IF Truthy(Get(data, "content_name")) THEN Get(data, "content_name")
    ELSE IF Len(Get(data, "contents").v) = 1
    THEN Or(Get(Get(data, "contents").v[1], "title"),
            S(<<"Product ">> \o Get(Get(data, "contents").v[1], "id").v))
    ELSE S(<<"Order with ", ToString(Len(Get(data, "contents").v)), " products">>)

validateEcommercePurchaseData(data) ==
    IF ~Truthy(data) THEN Invalid(Err(TRUE, "customData"))
    ELSE IF contentsThrow(data) THEN Threw
    ELSE LET contents == Get(data, "contents")
             errors ==
                Err(notNonEmptyString(Get(data, "order_id")), "order_id")
                \o cartFieldErrors(data, FALSE)
                \o requiredContentsErrors(data)
             \* a value that differs from the expected total is only logged
             crossErrors ==
                Err(quantityMismatch(contents, Get(data, "num_items")), "num_items mismatch")
         IN  IF Len(errors) > 0 THEN Invalid(errors)
             ELSE IF Len(crossErrors) > 0 THEN Invalid(crossErrors)
             ELSE Valid([order_id |-> S(trim(Get(data, "order_id").v)),
                         value |-> Get(data, "value"),
                         currency |-> S(toUpperCase(Get(data, "currency").v)),
                         contents |-> sanitizedContents(contents),
                         num_items |-> Get(data, "num_items"),
                         content_type |-> Text("product"),
                         content_ids |-> sanitizedIds(Or(Get(data, "content_ids"),
                                                         idsOfContents(contents))),
                         content_name |-> S(trim(purchaseContentName(data).v))])

\* AddPaymentInfo copies every known key, so absent optional fields become undefined keys
paymentInfoItem(item) ==
    O([id |-> Get(item, "id"), quantity |-> parseInt(Get(item, "quantity")),
       item_price |-> Get(item, "item_price"), title |-> Get(item, "title")])

validateEcommerceAddPaymentInfoData(data) ==
    IF propertyReadThrows(data) \/ contentsThrow(data) THEN Threw
    ELSE LET contents == Get(data, "contents")
             isArray == Truthy(contents) /\ IsArray(contents)
             errors ==
                Err(notNonEmptyArray(contents), "contents")
                \o Err(~IsNumber(Get(data, "value")) \/ Get(data, "value").v < 0, "value")
                \o Err(~Truthy(Get(data, "currency")) \/ ~IsString(Get(data, "currency")),
                       "currency")
                \o Err(~IsNumber(Get(data, "num_items")) \/ Get(data, "num_items").v < 100,
                       "num_items")
                \o (IF isArray THEN contentsErrors(contents, FALSE, 100, FALSE) ELSE <<>>)
                \* a comparison with NaN is false, `!==` with NaN is true
                \o (IF ~isArray THEN <<>>
                    ELSE Err(/\ ~totalIsNaN(contents) /\ IsNumber(Get(data, "value"))
                             /\ valueMismatchRelative(contents, Get(data, "value")),
                             "value mismatch")
                         \o Err(\/ quantityIsNaN(contents)
                                \/ ~IsNumber(Get(data, "num_items"))
                                \/ quantityMismatch(contents, Get(data, "num_items")),
                                "num_items mismatch"))
         IN  IF Len(errors) > 0 THEN Invalid(errors)
             ELSE Valid([contents |-> L([i \in 1..Len(contents.v) |->
                                            paymentInfoItem(contents.v[i])]),
                         value |-> Get(data, "value"),
                         currency |-> S(toUpperCase(Get(data, "currency").v)),
                         num_items |-> parseInt(Get(data, "num_items")),
                         content_type |-> Text("product"),
                         content_ids |-> Or(Get(data, "content_ids"), idsOfContents(contents)),
                         content_name |-> Get(data, "content_name"),
                         payment_method |-> Get(data, "payment_method")])

\* the validator each handler applies to body.customData
validate(handler, data) ==
    CASE handler = "ViewContent" -> validateEcommerceViewContentData(data)
      [] handler = "AddToCart" -> validateEcommerceAddToCartData(data)
      [] handler = "InitiateCheckout" -> validateEcommerceCheckoutData(data)
      [] handler = "AddToWishlist" -> validateEcommerceAddToWishlistData(data)
      [] handler = "Purchase" -> validateEcommercePurchaseData(data)
      [] handler = "AddPaymentInfo" -> validateEcommerceAddPaymentInfoData(data)

----------------------------------------------------------------------------
(* Inputs *)

EnvSamples ==
    {[FACEBOOK_DATASET_ID |-> d, FACEBOOK_ACCESS_TOKEN |-> a,
      IPDATA_API_KEY |-> k, FACEBOOK_TEST_EVENT_CODE |-> c] :
        d \in {Undefined, Text("DATASET")}, a \in {Undefined, Text("TOKEN")},
        k \in {Undefined, Text("IPKEY")}, c \in {Undefined}}
    \cup
    {[FACEBOOK_DATASET_ID |-> Text("DATASET"), FACEBOOK_ACCESS_TOKEN |-> Text("TOKEN"),
      IPDATA_API_KEY |-> Text("IPKEY"), FACEBOOK_TEST_EVENT_CODE |-> Text("TEST1")]}

\* header values as request.headers.get returns them: null when the header is absent
HeaderSamples ==
    {[xForwardedFor |-> S(<<" ", "9", " ", ",", "1">>), xRealIp |-> Null,
      userAgent |-> S(<<"A", "b">>)],
     [xForwardedFor |-> S(<<" ", ",", "9">>), xRealIp |-> S(<<"1">>),
      userAgent |-> S(<<"A", "b">>)],
     [xForwardedFor |-> Null, xRealIp |-> S(<<"1">>), userAgent |-> Null],
     [xForwardedFor |-> Null, xRealIp |-> Null, userAgent |-> S(<<"A", "b">>)]}

CookieSamples ==
    {[fbc |-> Undefined, fbp |-> Undefined],
     [fbc |-> S(<<"k", "c">>), fbp |-> S(<<"k", "p">>)]}

UserDataSamples ==
    {Undefined,
     O([fbc |-> S(<<"b", "c">>), fbp |-> S(<<"b", "p">>),
        em |-> L(<<S(<<" ", "A", "@", "b", " ">>)>>),
        ct |-> L(<<S(<<"A", " ", "b">>)>>),
        client_ip_address |-> S(<<"6">>)]),
     O([fbc |-> S(<<>>), ph |-> L(<<S(<<"1", "-", "9">>), S(<<"9">>)>>),
        fn |-> L(<<>>), external_id |-> L(<<S(<<"A", "1">>)>>)]),
     O([em |-> L(<<N(7)>>)])}

CustomDataSamples ==
    {Undefined,
     O([value |-> N(100), currency |-> S(<<"B", "B", "A">>), fbclid |-> S(<<"d", "c">>)]),
     O([value |-> N(100), currency |-> S(<<"B", "B", "A">>), fbclid |-> S(<<>>)])}

UrlParameterSamples ==
    {Undefined,
     O([fbclid |-> S(<<"u", "c">>), utm_source |-> S(<<"a">>)]),
     O([fbclid |-> S(<<>>)]),
     O([utm_source |-> S(<<"a">>), value |-> S(<<"9">>)])}

EventIdSamples == {Undefined, S(<<"e", "1">>)}

EventTimeOverrideSamples == {Undefined, N(0), N(1700)}

EventNames ==
    {"ViewContent", "AddToCart", "AddToWishlist", "InitiateCheckout", "AddPaymentInfo", "Purchase"}

\* how the geo lookup fetch can settle
GeoBodies ==
    {O([city |-> S(<<"A", " ", "a">>), region_code |-> S(<<"B", "A">>),
        postal |-> S(<<"1", " ", "9">>), country_code |-> S(<<"B", "B">>)]),
     O([city |-> S(<<"A", " ", "a">>)]),
     EmptyObject,
     O([country_code |-> N(9)]),
     Null,
     Unparseable}

GeoLookups ==
    {[kind |-> "throws"]}
    \cup {[kind |-> "response", ok |-> FALSE, body |-> EmptyObject]}
    \cup {[kind |-> "response", ok |-> TRUE, body |-> b] : b \in GeoBodies}

\* how the outbound POST can settle
PostBodies ==
    {O([events_received |-> N(1), fbtrace_id |-> S(<<"t", "1">>)]),
     O([events_received |-> N(1)]),
     O([fbtrace_id |-> S(<<"t", "1">>)]),
     O([events_received |-> N(0), fbtrace_id |-> S(<<>>)]),
     EmptyObject,
     O([error |-> O([message |-> Text("Invalid parameter"), fbtrace_id |-> S(<<"t", "9">>)])]),
     Null,
     Unparseable}

PostOutcomes ==
    {[kind |-> "throws", message |-> Text("fetch failed")]}
    \cup {[kind |-> "response", ok |-> o, body |-> b] : o \in BOOLEAN, b \in PostBodies}

----------------------------------------------------------------------------
(* sendServerEvent, one action per stretch between two awaits *)

\* lines 220-223: the credential check
credentialsMissing == ~Truthy(ACCESS_TOKEN) \/ ~Truthy(DATASET_ID)

\* lines 220-283: from entry to the geo lookup being issued or skipped
SendEntry ==
    /\ pc = "send_entry"
    /\ IF credentialsMissing
       THEN /\ result' = [success |-> B(FALSE),
                          error |-> Text("Missing Facebook API credentials on server.")]
            /\ pc' = "send_returned"
            /\ UNCHANGED <<local, network, trail>>
       ELSE LET userData == IF call.userData = Undefined THEN EmptyObject ELSE call.userData
                customData == IF call.customData = Undefined THEN EmptyObject ELSE call.customData
                ip == clientIpAddressOf(request.headers)
                ua == request.headers.userAgent
                fbc == fbcValueForUserDataOf(userData, customData, call.urlParameters)
                enhanced == enhancedUserDataOf(userData, ip, ua, fbc)
            IN  /\ local' = [NoLocal EXCEPT
                                !.eventTime = eventTimeOf(call.event_time_override, request.now),
                                !.clientIpAddress = ip,
                                !.clientUserAgent = ua,
                                !.fbcValueForUserData = fbc,
                                !.tempUrlParams = tempUrlParamsOf(call.urlParameters),
                                !.tempCustomData = tempCustomDataOf(customData),
                                !.enhancedUserData = enhanced]
                /\ IF Truthy(ip) /\ Truthy(IPDATA_API_KEY)
                   THEN /\ geoCallsLookup(ip)
                        /\ network' = Append(network, [kind |-> "geo", ip |-> ip,
                                                       key |-> IPDATA_API_KEY])
                        /\ trail' = Append(trail, "geo_lookup")
                        /\ pc' = "geo_await"
                   ELSE /\ network' = network
                        /\ trail' = Append(trail, "geo_skipped")
                        /\ pc' = "hash"
                /\ result' = result
    /\ UNCHANGED <<env, parked, request, call, thrown, response>>

\* lines 119-138 and 278-280: the lookup settles, its fragment is spread over the user data
GeoReturn ==
    /\ pc = "geo_await"
    /\ \E lookup \in GeoLookups :
        LET geoData == getGeolocationData(local.clientIpAddress, lookup)
        IN  /\ local' = [local EXCEPT !.enhancedUserData = Merge(@, geoData)]
            /\ network' = [network EXCEPT ![Len(network)] =
                              Merge(@, [settled |-> lookup, geoData |-> O(geoData)])]
    /\ trail' = Append(trail, "geo_done")
    /\ pc' = "hash"
    /\ UNCHANGED <<env, parked, request, call, result, thrown, response>>

\* line 286: hashUserData; a TypeError inside it rejects sendServerEvent
HashStep ==
    /\ pc = "hash"
    /\ IF hashUserDataThrows(local.enhancedUserData)
       THEN /\ thrown' = TypeError("e.trim is not a function")
            /\ pc' = "send_threw"
            /\ UNCHANGED <<local, trail>>
       ELSE /\ local' = [local EXCEPT !.hashedUserData = hashUserData(local.enhancedUserData)]
            /\ trail' = Append(trail, "hashed")
            /\ pc' = "post"
            /\ UNCHANGED thrown
    /\ UNCHANGED <<env, parked, request, call, network, result, response>>

\* lines 291-323: the payload is assembled and the POST is issued
PostIssue ==
    /\ pc = "post"
    /\ LET payload == payloadOf(call.eventName, local.eventTime, local.hashedUserData,
                                finalCustomDataOf(local.tempCustomData, local.tempUrlParams),
                                call.eventSourceUrl, call.eventId)
       IN  /\ local' = [local EXCEPT !.payload = O(payload)]
           /\ network' = Append(network, [kind |-> "post", dataset |-> DATASET_ID,
                                          token |-> ACCESS_TOKEN, body |-> postBodyOf(payload)])
    /\ trail' = Append(trail, "post_issued")
    /\ pc' = "post_await"
    /\ UNCHANGED <<env, parked, request, call, result, thrown, response>>

\* lines 325-347: the POST settles and is interpreted
PostReturn ==
    /\ pc = "post_await"
    /\ \E post \in PostOutcomes :
        /\ result' = outcomeOf(post, local.payload.v)
        /\ network' = [network EXCEPT ![Len(network)] = Merge(@, [settled |-> post])]
    /\ trail' = Append(trail, "post_done")
    /\ pc' = "send_returned"
    /\ UNCHANGED <<env, parked, request, call, local, thrown, response>>

SendNext == SendEntry \/ GeoReturn \/ HashStep \/ PostIssue \/ PostReturn

\* a direct invocation of the exported sendServerEvent with arbitrary arguments
DirectRequests ==
    {[handler |-> "direct", headers |-> h, cookies |-> [fbc |-> Undefined, fbp |-> Undefined],
      nextUrl |-> Text("https://host/api"), now |-> 1000, body |-> Undefined] :
        h \in HeaderSamples}

DirectCalls ==
    {[eventName |-> "Purchase", userData |-> u, customData |-> c, eventSourceUrl |-> Undefined,
      eventId |-> e, urlParameters |-> p, event_time_override |-> t] :
        u \in UserDataSamples, c \in CustomDataSamples, e \in EventIdSamples,
        p \in UrlParameterSamples, t \in EventTimeOverrideSamples}

SendInit ==
    /\ env \in EnvSamples
    /\ request \in DirectRequests
    /\ call \in DirectCalls
    /\ pc = "send_entry"
    /\ local = NoLocal
    /\ network = <<>>
    /\ trail = <<>>
    /\ result = NoResult
    /\ thrown = NoError
    /\ response = NoResponse
    /\ parked = <<>>

SendSpec == SendInit /\ [][SendNext]_vars

----------------------------------------------------------------------------
(* The six validating route handlers *)

NoCall == [t |-> "none"]

\* NextResponse.json(body, { status })
Json(status, body) == [status |-> status, body |-> toJSON(O(body))]

\* the cookie merge of the five /api/track handlers
cookiePreferred(cookie, fromClient) ==
    IF Truthy(cookie) /\ (~Truthy(fromClient) \/ fromClient # cookie) THEN cookie ELSE fromClient

userDataForFbeventsOf(clientProvidedUserData, cookies) ==
    Merge(Props(clientProvidedUserData),
          [fbc |-> cookiePreferred(cookies.fbc, GetOpt(clientProvidedUserData, "fbc")),
           fbp |-> cookiePreferred(cookies.fbp, GetOpt(clientProvidedUserData, "fbp"))])

\* validation errors reported as a server error
trackInvalid_AsServerError(errors, eventId) ==
    Json(500, [message |-> Text("Invalid e-commerce data"), errors |-> errors,
               event_id |-> eventId, success |-> B(FALSE)])

\* the 400 of the five /api/track handlers
trackInvalid(errors, eventId) ==
    Json(400, [message |-> Text("Invalid e-commerce data"), errors |-> errors,
               event_id |-> eventId, success |-> B(FALSE)])

\* a catch block that answers as if nothing had happened
trackCaught_AsSuccess(error, eventId) == Json(200, [event_id |-> eventId, success |-> B(TRUE)])

\* the catch block of the five /api/track handlers
trackCaught(error, eventId) ==
    Json(500, [message |-> Text("Critical error processing event"), error |-> error.message,
               event_id |-> eventId, success |-> B(FALSE)])

\* a handler that accepts an unconfirmed acknowledgement
trackResponse_WarningAccepted(outcome, eventId) ==
    IF Truthy(outcome.success) \/ "warning" \in DOMAIN outcome
    THEN Json(200, [event_id |-> eventId, success |-> B(TRUE)])
    ELSE Json(500, [error |-> Text("Unknown error"), event_id |-> eventId,
                    success |-> B(FALSE)])

\* `if (result && result.success)` and its two branches
trackResponse(outcome, eventId) ==
    IF Truthy(outcome.success)
    THEN Json(200, [message |-> Text("event processed successfully"),
                    fbtrace_id |-> Get(O(outcome), "fbtrace_id"),
                    event_id |-> eventId, success |-> B(TRUE)])
    ELSE Json(500, [message |-> Text("Error processing event"),
                    error |-> Or(Or(Get(O(outcome), "error"), Get(O(outcome), "warning")),
                                 Text("Unknown error")),
                    event_id |-> eventId, success |-> B(FALSE)])

\* from the start of POST to the await on sendServerEvent, or to an early response
trackPOST(eventName) ==
    /\ pc = "handler_entry"
    /\ request.handler = eventName
    /\ LET body == request.body
           eventId == Or(Get(body, "eventId"), Text("N/A"))
           validation == validate(eventName, Get(body, "customData"))
       IN  IF body = Unparseable
           THEN /\ response' = trackCaught(SyntaxError("Unexpected token in JSON"), Text("N/A"))
                /\ pc' = "responded"
                /\ call' = call
           ELSE IF propertyReadThrows(body)
           THEN /\ response' = trackCaught(TypeError("Cannot read properties of null"),
                                           Text("N/A"))
                /\ pc' = "responded"
                /\ call' = call
           ELSE IF validation.threw
           THEN /\ response' = trackCaught(TypeError("Cannot read properties of null"), eventId)
                /\ pc' = "responded"
                /\ call' = call
           ELSE IF ~validation.isValid
           THEN /\ response' = trackInvalid(validation.errors, eventId)
                /\ pc' = "responded"
                /\ call' = call
           ELSE /\ call' = [eventName |-> eventName,
                            userData |-> O(userDataForFbeventsOf(Get(body, "userData"),
                                                                 request.cookies)),
                            customData |-> validation.sanitizedData,
                            eventSourceUrl |-> Get(body, "eventSourceUrl"),
                            eventId |-> eventId,
                            urlParameters |-> Get(body, "urlParameters"),
                            event_time_override |-> Undefined]
                /\ pc' = "send_entry"
                /\ response' = response
    /\ UNCHANGED <<env, parked, request, local, network, trail, result, thrown>>

\* from sendServerEvent settling to the response
trackSettled(eventName) ==
    /\ request.handler = eventName
    /\ \/ /\ pc = "send_returned"
          /\ response' = trackResponse(result, call.eventId)
       \/ /\ pc = "send_threw"
          /\ response' = trackCaught(thrown, call.eventId)
    /\ pc' = "responded"
    /\ UNCHANGED <<env, parked, request, call, local, network, trail, result, thrown>>

ViewContentPOST == trackPOST("ViewContent")
ViewContentSettled == trackSettled("ViewContent")

AddToCartPOST == trackPOST("AddToCart")
AddToCartSettled == trackSettled("AddToCart")

AddToWishlistPOST == trackPOST("AddToWishlist")
AddToWishlistSettled == trackSettled("AddToWishlist")

InitiateCheckoutPOST == trackPOST("InitiateCheckout")
InitiateCheckoutSettled == trackSettled("InitiateCheckout")

PurchasePOST == trackPOST("Purchase")
PurchaseSettled == trackSettled("Purchase")

\* the catch block of the AddPaymentInfo handler
paymentInfoCaught(error) ==
    Json(500, [success |-> B(FALSE), error |-> Text("Erro interno do servidor"),
               details |-> error.message])

paymentInfoRejected(message) == Json(400, [success |-> B(FALSE), error |-> Text(message)])

AddPaymentInfoPOST ==
    /\ pc = "handler_entry"
    /\ request.handler = "AddPaymentInfo"
    /\ LET body == request.body
           validation == validate("AddPaymentInfo", Get(body, "customData"))
       IN  IF body = Unparseable
           THEN /\ response' = paymentInfoCaught(SyntaxError("Unexpected token in JSON"))
                /\ pc' = "responded"
                /\ call' = call
           ELSE IF propertyReadThrows(body)
           THEN /\ response' = paymentInfoCaught(TypeError("Cannot destructure null"))
                /\ pc' = "responded"
                /\ call' = call
           ELSE IF ~Truthy(Get(body, "userData"))
           THEN /\ response' = paymentInfoRejected("userData e obrigatório")
                /\ pc' = "responded"
                /\ call' = call
           ELSE IF ~Truthy(Get(body, "customData"))
           THEN /\ response' = paymentInfoRejected("customData e obrigatório")
                /\ pc' = "responded"
                /\ call' = call
           ELSE IF validation.threw
           THEN /\ response' = paymentInfoCaught(TypeError("Cannot read properties of null"))
                /\ pc' = "responded"
                /\ call' = call
           ELSE IF ~validation.isValid
           THEN /\ response' = Json(400, [success |-> B(FALSE),
                                          error |-> Text("Dados de pagamento invalidos"),
                                          details |-> validation.errors])
                /\ pc' = "responded"
                /\ call' = call
           ELSE /\ call' = [eventName |-> "AddPaymentInfo",
                            userData |-> Get(body, "userData"),
                            customData |-> validation.sanitizedData,
                            eventSourceUrl |-> Get(body, "event_source_url"),
                            eventId |-> Get(body, "event_id"),
                            urlParameters |-> Get(body, "urlParameters"),
                            event_time_override |-> Undefined]
                /\ pc' = "send_entry"
                /\ response' = response
    /\ UNCHANGED <<env, parked, request, local, network, trail, result, thrown>>

AddPaymentInfoSettled ==
    /\ request.handler = "AddPaymentInfo"
    /\ \/ /\ pc = "send_returned"
          /\ response' =
                IF Truthy(result.success)
                THEN Json(200, [success |-> B(TRUE),
                                message |-> Text("Evento AddPaymentInfo enviado com sucesso"),
                                eventId |-> call.eventId,
                                facebook_response |->
                                    IF "fbtrace_id" \in DOMAIN result
                                    THEN O([fbtrace_id |-> result.fbtrace_id]) ELSE Null])
                ELSE Json(500, [success |-> B(FALSE),
                                error |-> Text("Erro ao enviar evento para Facebook"),
                                details |-> Get(O(result), "error")])
       \/ /\ pc = "send_threw"
          /\ response' = paymentInfoCaught(thrown)
    /\ pc' = "responded"
    /\ UNCHANGED <<env, parked, request, call, local, network, trail, result, thrown>>

----------------------------------------------------------------------------
(* Requests reaching the handlers *)

Item(id, quantity, price) ==
    O([id |-> id, quantity |-> Hundredths(quantity), item_price |-> Hundredths(price)])

\* a cart of 2 x 1.00 carrying every field the six validators require
Cart(value, contents) ==
    [content_ids |-> L(<<S(<<"a">>)>>), content_name |-> S(<<" ", "A", "b">>),
     value |-> Hundredths(value), currency |-> S(<<"b", "b", "a">>),
     quantity |-> N(2), num_items |-> N(2), order_id |-> S(<<"1", " ">>),
     contents |-> L(contents), fbclid |-> S(<<"d", "c">>)]

BodyCustomDataSamples ==
    {Undefined,
     \* consistent everywhere
     O(Cart(200, <<Item(S(<<" ", "a">>), 200, 100)>>)),
     \* value 2.50 against items worth 2.00
     O(Cart(250, <<Item(S(<<"a">>), 200, 100)>>)),
     \* num_items 3 against 2 units
     O([Cart(200, <<Item(S(<<"a">>), 200, 100)>>) EXCEPT !.num_items = N(3)]),
     \* no contents, one unit
     O([content_ids |-> L(<<S(<<"a">>)>>), content_name |-> S(<<"A">>), value |-> N(1),
        currency |-> S(<<"b", "b", "a">>), quantity |-> N(1)]),
     \* fractional counts: 1.5 x 2.00 = 3.00
     O([Cart(300, <<Item(S(<<"a">>), 150, 200)>>) EXCEPT
            !.quantity = Hundredths(150), !.num_items = Hundredths(150)]),
     \* two lines of 1.5 units: 3 units, 6.00
     O([Cart(600, <<Item(S(<<"a">>), 150, 200), Item(S(<<"b">>), 150, 200)>>) EXCEPT
            !.quantity = N(3), !.num_items = N(3)]),
     \* a null element in contents
     O(Cart(200, <<Item(S(<<"a">>), 200, 100), Null>>)),
     \* wrong types
     O([content_ids |-> L(<<>>), value |-> S(<<"9">>), contents |-> L(<<N(9)>>)])}

\* the body key each handler reads the event id from
eventIdKey(handler) == IF handler = "AddPaymentInfo" THEN "event_id" ELSE "eventId"

BodySamples(handler) ==
    {Unparseable, Null}
    \cup {O(Put([userData |-> u, customData |-> c, urlParameters |-> p],
                eventIdKey(handler), e)) :
            u \in UserDataSamples, c \in BodyCustomDataSamples,
            p \in UrlParameterSamples, e \in EventIdSamples}

Requests ==
    UNION {{[handler |-> h, headers |-> hd, cookies |-> ck,
             nextUrl |-> Text("https://host/api"), now |-> 1000, body |-> b] :
                hd \in HeaderSamples, ck \in CookieSamples, b \in BodySamples(h)} :
           h \in EventNames}

\* deployments: nothing configured, everything configured
Deployments ==
    {e \in EnvSamples : \A k \in DOMAIN e : Truthy(e[k]) = Truthy(e.FACEBOOK_TEST_EVENT_CODE)}

Init ==
    /\ env \in Deployments
    /\ request \in Requests
    /\ call = NoCall
    /\ pc = "handler_entry"
    /\ local = NoLocal
    /\ network = <<>>
    /\ trail = <<>>
    /\ result = NoResult
    /\ thrown = NoError
    /\ response = NoResponse
    /\ parked = <<>>

Next ==
    \/ ViewContentPOST \/ ViewContentSettled
    \/ AddToCartPOST \/ AddToCartSettled
    \/ AddToWishlistPOST \/ AddToWishlistSettled
    \/ InitiateCheckoutPOST \/ InitiateCheckoutSettled
    \/ PurchasePOST \/ PurchaseSettled
    \/ AddPaymentInfoPOST \/ AddPaymentInfoSettled
    \/ SendEntry \/ GeoReturn \/ HashStep \/ PostIssue \/ PostReturn

Spec == Init /\ [][Next]_vars

----------------------------------------------------------------------------
(* Purchase webhooks: the Cakto adapter and the Kiwify placeholder *)

\* name.trim().split(/\s+/).shift()
RECURSIVE firstWord(_)
firstWord(c) ==
    IF Len(c) = 0 \/ Head(c) \in Whitespace THEN <<>> ELSE <<Head(c)>> \o firstWord(Tail(c))

\* the remaining words joined by single spaces
RECURSIVE joinWords(_)
joinWords(c) ==
    IF Len(c) = 0 THEN <<>>
    ELSE IF Head(c) \in Whitespace
         THEN (IF Len(trimStart(c)) = 0 THEN <<>> ELSE <<" ">> \o joinWords(trimStart(c)))
    ELSE <<Head(c)>> \o joinWords(Tail(c))

\* the key=value pairs of a query string, keys and values being one token each
RECURSIVE queryPairs(_)
queryPairs(c) ==
    IF Len(c) >= 3 /\ c[2] = "="
    THEN Merge([k \in {c[1]} |-> S(<<c[3]>>)],
               IF Len(c) >= 5 /\ c[4] = "&" THEN queryPairs(SubSeq(c, 5, Len(c))) ELSE <<>>)
    ELSE <<>>

\* checkoutUrlObj.searchParams as a key/value function; nothing when new URL(s) does not
\* parse (a string without a scheme)
searchParamsOf(url) ==
    IF IsString(url) /\ Len(url.v) >= 2 /\ url.v[1] = "https://pay/c" /\ url.v[2] = "?"
    THEN queryPairs(SubSeq(url.v, 3, Len(url.v)))
    ELSE <<>>

\* Math.floor(new Date(paidAt).getTime() / 1000): NaN for a date that does not parse.
\* 2023-11-14T22:13:20Z is second 1700000000, kept as 1700.
paidAtSeconds(paidAt) ==
    IF paidAt = Text("2023-11-14T22:13:20Z") THEN N(1700) ELSE NaN

\* parseFloat(x.toString()) of a number
parseFloat(x) == IF IsNumber(x) THEN x ELSE NaN

\* customer.address?.x, else customer.x
addressField(customer, key) == Or(Get(Get(customer, "address"), key), Get(customer, key))

\* reads that throw before the geo lookup is awaited
caktoThrowsEarly(eventData) ==
    \/ propertyReadThrows(eventData)
    \/ propertyReadThrows(Get(eventData, "customer"))
    \/ Truthy(Get(Get(eventData, "customer"), "name"))
       /\ ~IsString(Get(Get(eventData, "customer"), "name"))

\* reads that throw once the geo lookup has settled
caktoThrowsLate(eventData) ==
    \/ \E k \in {"email", "phone", "birthDate"} :
          Truthy(Get(Get(eventData, "customer"), k))
          /\ ~IsString(Get(Get(eventData, "customer"), k))
    \/ \E k \in {"city", "state", "zipcode", "country_code"} :
          Truthy(addressField(Get(eventData, "customer"), k))
          /\ ~IsString(addressField(Get(eventData, "customer"), k))
    \/ propertyReadThrows(Get(eventData, "product"))
    \/ propertyReadThrows(Get(eventData, "offer"))
    \/ propertyReadThrows(Get(eventData, "amount"))
    \/ propertyReadThrows(Get(Get(eventData, "offer"), "price"))

\* the identity block the adapter builds; geoData is what its own lookup returned
caktoUserDataOf(eventData, geoData) ==
    LET customer == Get(eventData, "customer")
        name == Get(customer, "name")
        city == addressField(customer, "city")
        state == addressField(customer, "state")
        zipcode == addressField(customer, "zipcode")
        countryCode == addressField(customer, "country_code")
        text(x) == IF IsString(x) THEN x.v ELSE <<>>
        \* `a ? [f(a)] : undefined`
        listOf(a, c) == IF Truthy(a) THEN L(<<S(c)>>) ELSE Undefined
        firstNameOf(n) == IF Truthy(n) THEN S(firstWord(trim(n.v))) ELSE n
        lastNameOf(n) ==
            IF Truthy(n)
            THEN S(joinWords(trimStart(SubSeq(trim(n.v), Len(firstWord(trim(n.v))) + 1,
                                              Len(trim(n.v))))))
            ELSE S(<<>>)
        \* checkoutUrlObj.searchParams.get(key)
        params == IF Truthy(Get(eventData, "checkoutUrl"))
                  THEN searchParamsOf(Get(eventData, "checkoutUrl")) ELSE <<>>
        trackingParamOf(key) == IF key \in DOMAIN params THEN params[key] ELSE Undefined
    IN  [em |-> listOf(Get(customer, "email"), toLowerCase(trim(text(Get(customer, "email"))))),
         ph |-> listOf(Get(customer, "phone"), keepChars(text(Get(customer, "phone")), DigitChars)),
         fn |-> listOf(firstNameOf(name), toLowerCase(trim(text(firstNameOf(name))))),
         ln |-> listOf(lastNameOf(name), toLowerCase(trim(text(lastNameOf(name))))),
         db |-> listOf(Get(customer, "birthDate"),
                       removeChars(text(Get(customer, "birthDate")), {"-"})),
         client_ip_address |-> Or(Get(customer, "ip"), Undefined),
         ct |-> Or(Get(O(geoData), "ct"), listOf(city, trim(text(city)))),
         st |-> Or(Get(O(geoData), "st"), listOf(state, toUpperCase(trim(text(state))))),
         zp |-> Or(Get(O(geoData), "zp"), listOf(zipcode, keepChars(text(zipcode), DigitChars))),
         country |-> Or(Get(O(geoData), "country"),
                        listOf(countryCode, toLowerCase(text(countryCode)))),
         external_id |-> IF Truthy(trackingParamOf("s1_extid"))
                         THEN L(<<trackingParamOf("s1_extid")>>) ELSE Undefined,
         fbp |-> Or(Or(trackingParamOf("s2_fbp"), Get(eventData, "fbp")), Undefined),
         fbc |-> Or(Or(trackingParamOf("s3_fbc"), Get(eventData, "fbc")), Undefined)]

\* the custom data of the purchase, cleaned of null and empty-string values
caktoCustomDataOf(eventData) ==
    LET UtmKeys == {"utm_source", "utm_medium", "utm_campaign", "utm_content", "utm_term"}
        params == IF Truthy(Get(eventData, "checkoutUrl"))
                  THEN searchParamsOf(Get(eventData, "checkoutUrl")) ELSE <<>>
        \* utmsAndOtherParamsFromUrl: every query parameter but the three tracking ones
        fromUrl == [k \in (DOMAIN params) \ {"s1_extid", "s2_fbp", "s3_fbc"} |-> params[k]]
        direct == [k \in {j \in UtmKeys : Truthy(Get(eventData, j))
                                          /\ ~Truthy(Get(O(fromUrl), j))} |->
                      Get(eventData, k)]
        built == Merge(Merge(
                    [value |-> parseFloat(Get(eventData, "amount")),
                     currency |-> Text("BRL"),
                     order_id |-> Get(eventData, "id"),
                     content_name |-> Get(Get(eventData, "product"), "name"),
                     content_ids |-> L(<<Get(Get(eventData, "product"), "id")>>),
                     contents |-> L(<<O([id |-> Get(Get(eventData, "product"), "id"),
                                         quantity |-> N(1),
                                         item_price |->
                                            parseFloat(Get(Get(eventData, "offer"), "price"))])>>),
                     num_items |-> N(1),
                     payment_method |-> Get(eventData, "paymentMethod")],
                    fromUrl), direct)
    IN  [k \in {j \in DOMAIN built : built[j] # Null /\ built[j] # S(<<>>)} |-> built[k]]

\* every event type taken for a purchase confirmation
isPurchaseApproved_Always(caktoPayload) == TRUE

\* `caktoPayload.event !== 'purchase_approved'` is false
isPurchaseApproved(caktoPayload) == Get(caktoPayload, "event") = Text("purchase_approved")

\* the catch block of the Cakto handler
caktoCaught(error) ==
    Json(500, [message |-> Text("Error processing Cakto webhook"), error |-> error.message,
               success |-> B(FALSE)])

\* lines 1041-1117 of the guide: the adapter builds both blocks and calls sendServerEvent
caktoDispatch(eventData, geoData) ==
    IF caktoThrowsLate(eventData)
    THEN /\ response' = caktoCaught(TypeError("Cannot read properties of undefined"))
         /\ pc' = "responded"
         /\ call' = call
    ELSE /\ call' = [eventName |-> "Purchase",
                     userData |-> O(caktoUserDataOf(eventData, geoData)),
                     customData |-> O(caktoCustomDataOf(eventData)),
                     eventSourceUrl |-> Get(eventData, "checkoutUrl"),
                     eventId |-> Get(eventData, "id"),
                     urlParameters |-> Undefined,
                     event_time_override |-> paidAtSeconds(Get(eventData, "paidAt"))]
         /\ pc' = "send_entry"
         /\ response' = response

\* from the start of POST to the adapter's own geo lookup, the dispatch or an early answer
CaktoPOST ==
    /\ pc = "handler_entry"
    /\ request.handler = "CaktoWebhook"
    /\ LET caktoPayload == request.body
           eventData == Get(caktoPayload, "data")
           ip == Get(Get(eventData, "customer"), "ip")
       IN  IF caktoPayload = Unparseable
           THEN /\ response' = caktoCaught(SyntaxError("Unexpected token in JSON"))
                /\ pc' = "responded"
                /\ UNCHANGED <<call, network, trail>>
           ELSE IF propertyReadThrows(caktoPayload)
           THEN /\ response' = caktoCaught(TypeError("Cannot read properties of null"))
                /\ pc' = "responded"
                /\ UNCHANGED <<call, network, trail>>
           ELSE IF ~isPurchaseApproved(caktoPayload)
           THEN /\ response' = Json(200, [message |-> Text("Event type not processed")])
                /\ pc' = "responded"
                /\ UNCHANGED <<call, network, trail>>
           ELSE IF caktoThrowsEarly(eventData)
           THEN /\ response' = caktoCaught(TypeError("Cannot read properties of undefined"))
                /\ pc' = "responded"
                /\ UNCHANGED <<call, network, trail>>
           ELSE IF geoCallsLookup(ip)
           THEN /\ network' = Append(network, [kind |-> "geo", ip |-> ip,
                                               key |-> IPDATA_API_KEY])
                /\ trail' = Append(trail, "adapter_geo_lookup")
                /\ pc' = "adapter_geo_await"
                /\ UNCHANGED <<call, response>>
           ELSE /\ caktoDispatch(eventData, <<>>)
                /\ UNCHANGED <<network, trail>>
    /\ UNCHANGED <<env, parked, request, local, result, thrown>>

\* the adapter's lookup settles and the event is handed to sendServerEvent
CaktoGeoReturn ==
    /\ pc = "adapter_geo_await"
    /\ \E lookup \in GeoLookups :
          /\ network' = [network EXCEPT ![Len(network)] =
                            Merge(@, [settled |-> lookup, geoData |-> O(geoResult(lookup))])]
          /\ caktoDispatch(Get(request.body, "data"), geoResult(lookup))
    /\ trail' = Append(trail, "adapter_geo_done")
    /\ UNCHANGED <<env, parked, request, local, result, thrown>>

\* from sendServerEvent settling to the response
CaktoSettled ==
    /\ request.handler = "CaktoWebhook"
    /\ \/ /\ pc = "send_returned"
          /\ response' =
                IF Truthy(result.success)
                THEN Json(200, [message |-> Text("Cakto Purchase event processed successfully"),
                                fbtrace_id |-> Get(O(result), "fbtrace_id"),
                                event_id |-> call.eventId, success |-> B(TRUE)])
                ELSE Json(500, [message |-> Text("Error processing Cakto Purchase event"),
                                error |-> Or(Or(Get(O(result), "error"),
                                                Get(O(result), "warning")),
                                             Text("Unknown error")),
                                event_id |-> call.eventId, success |-> B(FALSE)])
       \/ /\ pc = "send_threw"
          /\ response' = caktoCaught(thrown)
    /\ pc' = "responded"
    /\ UNCHANGED <<env, parked, request, call, local, network, trail, result, thrown>>

\* the Kiwify placeholder: every parsed payload is acknowledged, nothing is dispatched
KiwifyPOST ==
    /\ pc = "handler_entry"
    /\ request.handler = "KiwifyWebhook"
    /\ response' =
          IF request.body = Unparseable
          THEN Json(500, [success |-> B(FALSE), error |-> Text("Unexpected token in JSON")])
          ELSE Json(200, [success |-> B(TRUE), message |-> Text("Kiwify webhook received")])
    /\ pc' = "responded"
    /\ UNCHANGED <<env, parked, request, call, local, network, trail, result, thrown>>

\* an approved purchase of one product by a customer at 6, relayed with every field
ApprovedPurchase ==
    [id |-> S(<<"1", "9">>),
     amount |-> N(2),
     paidAt |-> Text("2023-11-14T22:13:20Z"),
     paymentMethod |-> Text("pix"),
     checkoutUrl |-> S(<<"https://pay/c", "?", "s2_fbp", "=", "up", "&", "utm_source", "=", "a">>),
     utm_source |-> S(<<"b">>), utm_medium |-> S(<<"b">>), utm_term |-> S(<<>>),
     fbp |-> S(<<"b", "p">>), fbc |-> S(<<"b", "c">>),
     customer |-> O([name |-> S(<<" ", "A", " ", " ", "B", " ", "a">>),
                     email |-> S(<<" ", "A", "@", "b">>),
                     phone |-> S(<<"1", "-", "9">>),
                     ip |-> S(<<"6">>),
                     address |-> O([city |-> S(<<" ", "B", "b">>), state |-> S(<<"a", "b">>)]),
                     zipcode |-> S(<<"1", "-", "9">>), country_code |-> S(<<"B", "B">>)]),
     product |-> O([id |-> S(<<"a">>), name |-> S(<<"A", "b">>)]),
     offer |-> O([price |-> N(2)])]

\* a delivery to either webhook route: a body that is not JSON, null, a refused purchase,
\* approved purchases with and without customer IP, product or data
WebhookInit ==
    LET CaktoPayloads ==
            {Unparseable, Null,
             O([event |-> Text("purchase_refused"), data |-> O(ApprovedPurchase)]),
             O([event |-> Text("purchase_approved"), data |-> O(ApprovedPurchase)]),
             \* no customer IP, no payment date, no tracking URL
             O([event |-> Text("purchase_approved"),
                data |-> O([ApprovedPurchase EXCEPT
                               !.customer = O([name |-> S(<<"A">>), city |-> S(<<"B", "b">>)]),
                               !.paidAt = Undefined, !.checkoutUrl = S(<<"a">>),
                               !.paymentMethod = Null])]),
             \* no product
             O([event |-> Text("purchase_approved"),
                data |-> O([ApprovedPurchase EXCEPT !.product = Undefined])]),
             \* no data
             O([event |-> Text("purchase_approved")])}
        WebhookRequests ==
            {[handler |-> h, headers |-> hd, cookies |-> [fbc |-> Undefined, fbp |-> Undefined],
              nextUrl |-> Text("https://host/api"), now |-> 1000, body |-> b] :
                h \in {"CaktoWebhook", "KiwifyWebhook"}, hd \in HeaderSamples, b \in CaktoPayloads}
    IN
    /\ env \in Deployments
    /\ request \in WebhookRequests
    /\ call = NoCall
    /\ pc = "handler_entry"
    /\ local = NoLocal
    /\ network = <<>>
    /\ trail = <<>>
    /\ result = NoResult
    /\ thrown = NoError
    /\ response = NoResponse
    /\ parked = <<>>

WebhookNext ==
    \/ CaktoPOST \/ CaktoGeoReturn \/ CaktoSettled \/ KiwifyPOST
    \/ SendEntry \/ GeoReturn \/ HashStep \/ PostIssue \/ PostReturn

WebhookSpec == WebhookInit /\ [][WebhookNext]_vars

----------------------------------------------------------------------------
(* Two requests in flight on one server process *)

\* everything a request owns: its arguments, its locals, its fetches, its answer
Context(p, rq, c, l, n, t, rs, th, rp) ==
    [pc |-> p, request |-> rq, call |-> c, local |-> l, network |-> n, trail |-> t,
     result |-> rs, thrown |-> th, response |-> rp]

\* locals kept at module level: a resumed request finds those of whoever ran last
resumedLocal_Shared(own, last) == last

\* the const / let locals of sendServerEvent live in the closure of each invocation: a
\* resumed request finds its own
resumedLocal(own, last) == own

\* the running request awaits (or has answered) and the event loop resumes the other one;
\* the positions named are those at which a request is suspended (an await) or finished
Switch ==
    /\ Len(parked) = 1
    /\ pc \in {"handler_entry", "geo_await", "hash", "post_await", "responded"}
    /\ parked' = <<Context(pc, request, call, local, network, trail, result, thrown, response)>>
    /\ pc' = parked[1].pc
    /\ request' = parked[1].request
    /\ call' = parked[1].call
    /\ local' = resumedLocal(parked[1].local, local)
    /\ network' = parked[1].network
    /\ trail' = parked[1].trail
    /\ result' = parked[1].result
    /\ thrown' = parked[1].thrown
    /\ response' = parked[1].response
    /\ UNCHANGED env

\* two requests arrive together: a product view and a purchase that carry the same event
\* id, or twice the same request
ConcurrentInit ==
    LET ConcurrentRequests ==
            {[handler |-> "ViewContent",
              headers |-> [xForwardedFor |-> S(<<" ", "9", " ", ",", "1">>), xRealIp |-> Null,
                           userAgent |-> S(<<"A", "b">>)],
              cookies |-> [fbc |-> Undefined, fbp |-> Undefined],
              nextUrl |-> Text("https://host/api"), now |-> 1000,
              body |-> O([userData |-> O([em |-> L(<<S(<<" ", "A", "@", "b", " ">>)>>)]),
                          customData |-> O(Cart(200, <<Item(S(<<" ", "a">>), 200, 100)>>)),
                          urlParameters |-> Undefined,
                          eventId |-> S(<<"e", "1">>)])],
             [handler |-> "Purchase",
              headers |-> [xForwardedFor |-> Null, xRealIp |-> S(<<"1">>), userAgent |-> Null],
              cookies |-> [fbc |-> S(<<"k", "c">>), fbp |-> S(<<"k", "p">>)],
              nextUrl |-> Text("https://host/api"), now |-> 1000,
              body |-> O([userData |-> O([ph |-> L(<<S(<<"1", "-", "9">>)>>)]),
                          customData |-> O(Cart(200, <<Item(S(<<"b">>), 200, 100)>>)),
                          urlParameters |-> O([utm_source |-> S(<<"a">>)]),
                          eventId |-> S(<<"e", "1">>)])]}
    IN
    /\ env \in Deployments
    /\ request \in ConcurrentRequests
    /\ parked \in {<<Context("handler_entry", rq, NoCall, NoLocal, <<>>, <<>>, NoResult,
                               NoError, NoResponse)>> : rq \in ConcurrentRequests}
    /\ call = NoCall
    /\ pc = "handler_entry"
    /\ local = NoLocal
    /\ network = <<>>
    /\ trail = <<>>
    /\ result = NoResult
    /\ thrown = NoError
    /\ response = NoResponse

ConcurrentNext ==
    \/ ViewContentPOST \/ ViewContentSettled
    \/ PurchasePOST \/ PurchaseSettled
    \/ SendEntry \/ GeoReturn \/ HashStep \/ PostIssue \/ PostReturn
    \/ Switch

ConcurrentSpec == ConcurrentInit /\ [][ConcurrentNext]_vars

----------------------------------------------------------------------------
(* Properties *)

\* the outbound POSTs issued so far
Posts == SelectSeq(network, LAMBDA n : n.kind = "post")

\* sendServerEvent has returned an outcome computed from an HTTP response
PostAnswered ==
    /\ result # NoResult
    /\ Len(Posts) > 0
    /\ "settled" \in DOMAIN Posts[Len(Posts)]
    /\ Posts[Len(Posts)].settled.kind = "response"

Answer == Posts[Len(Posts)].settled

\* the two confirmation signals of a 2xx body
Confirmed(body) == Get(body, "events_received") = N(1) \/ Truthy(Get(body, "fbtrace_id"))

\* the outcome the tri-state rule prescribes for an answer
TriState(answer) ==
    IF ~answer.ok
    THEN /\ result.success = B(FALSE)
         /\ DOMAIN result = {"success", "error", "event_id"}
         /\ result.error = answer.body
    ELSE IF Confirmed(answer.body)
    THEN /\ result.success = B(TRUE)
         /\ DOMAIN result = {"success", "fbtrace_id", "event_id"}
         /\ result.fbtrace_id = Get(answer.body, "fbtrace_id")
    ELSE /\ result.success = B(FALSE)
         /\ DOMAIN result = {"success", "warning", "event_id"}
         /\ result.warning = answer.body

\* C1 as stated: for every response of the advertising API, a non-2xx status gives
\* success=false with error = the body, a 2xx status with events_received = 1 or a
\* trace id gives success=true with that trace id, and a 2xx status with neither gives
\* success=false with warning = the body.
C1_EveryResponse == PostAnswered => TriState(Answer)

\* C1, amended: the tri-state rule holds for every response whose body parses to a JSON
\* object; a body that does not parse, or a 2xx body of null, is an exception and is
\* reported as success=false with error = the exception message.
C1_TriState ==
    PostAnswered =>
        IF IsObject(Answer.body) THEN TriState(Answer)
        ELSE IF Answer.body = Null /\ ~Answer.ok THEN TriState(Answer)
        ELSE /\ result.success = B(FALSE)
             /\ DOMAIN result = {"success", "error", "event_id"}
             /\ IsString(result.error)

\* a 2xx answer with neither signal has been turned into a warning
C1_Witness ==
    /\ PostAnswered
    /\ Answer.ok
    /\ Answer.body = O([events_received |-> N(0), fbtrace_id |-> S(<<>>)])
    /\ result.success = B(FALSE)
    /\ result.warning = Answer.body

\* the validator ran on the request's customData and reported at least one error
ValidationFails ==
    /\ request.handler \in EventNames
    /\ IsObject(request.body)
    /\ request.handler = "AddPaymentInfo" =>
            Truthy(Get(request.body, "userData")) /\ Truthy(Get(request.body, "customData"))
    /\ ~validate(request.handler, Get(request.body, "customData")).threw
    /\ ~validate(request.handler, Get(request.body, "customData")).isValid

\* C2: in each of the six validating handlers, a request whose customData fails
\* validation is answered with status 400 and success=false, and no outbound call
\* (geo lookup or POST) is ever issued for it.
C2_InvalidIsRejectedLocally ==
    ValidationFails =>
        /\ network = <<>>
        /\ pc \in {"handler_entry", "responded"}
        /\ pc = "responded" =>
              /\ response.status = 400
              /\ Get(response.body, "success") = B(FALSE)

\* an AddToCart request whose value disagrees with its items has been answered
C2_Witness ==
    /\ ValidationFails
    /\ request.handler = "AddToCart"
    /\ Get(Get(request.body, "customData"), "value") = Hundredths(250)
    /\ pc = "responded"
    /\ response.status = 400

\* position of a step in the trail, 0 when it has not happened
Index(step) ==
    IF \E i \in 1..Len(trail) : trail[i] = step
    THEN CHOOSE i \in 1..Len(trail) : trail[i] = step
    ELSE 0

Done(step) == Index(step) # 0

\* the geo lookups issued so far
Lookups == SelectSeq(network, LAMBDA n : n.kind = "geo")

\* the identity block of an issued POST
PostedUserData(post) == post.body.v.data.v[1].v.user_data.v

IsDigestList(x) == IsArray(x) /\ \A i \in 1..Len(x.v) : x.v[i].t = "sha256hex"

\* C3: within one invocation the geo lookup is done or skipped before hashing, hashing
\* is done before the POST is issued, and the identity block of the POST is the hashed
\* one and carries what the geo lookup returned.
C3_StrictOrder ==
    /\ Done("geo_lookup") => ~Done("geo_skipped")
    /\ Done("geo_done") => Index("geo_lookup") < Index("geo_done")
    /\ Done("hashed") =>
          /\ Done("geo_done") \/ Done("geo_skipped")
          /\ Index("geo_done") < Index("hashed") /\ Index("geo_skipped") < Index("hashed")
          /\ \A i \in 1..Len(Lookups) : "settled" \in DOMAIN Lookups[i]
    /\ Done("post_issued") => Done("hashed") /\ Index("hashed") < Index("post_issued")
    /\ Len(Posts) > 0 => Done("post_issued")
    /\ \A i \in 1..Len(Posts) :
          /\ \A f \in SensitiveFields \cap DOMAIN PostedUserData(Posts[i]) :
                IsDigestList(PostedUserData(Posts[i])[f])
          /\ \A j \in 1..Len(Lookups) :
                \A k \in DOMAIN Lookups[j].geoData.v :
                    Lookups[j].geoData.v[k] # Undefined =>
                        /\ k \in DOMAIN PostedUserData(Posts[i])
                        /\ PostedUserData(Posts[i])[k] = hashField(k, Lookups[j].geoData.v[k])

\* a POST issued after a lookup that found a city carries the digest of that city
C3_Witness ==
    /\ trail = <<"geo_lookup", "geo_done", "hashed", "post_issued">>
    /\ {"ct", "country"} \subseteq DOMAIN PostedUserData(Posts[1])
    /\ PostedUserData(Posts[1]).ct = L(<<getHashedValue(<<"a", "a">>)>>)
    /\ IsDigestList(PostedUserData(Posts[1]).country)

\* C4: an invocation issues at most one POST, with exactly one event in its batch, and
\* once that POST has settled (non-2xx, unconfirmed 2xx or thrown) none follows.
C4_AtMostOnePost ==
    /\ Len(Posts) <= 1
    /\ \A i \in 1..Len(Posts) :
          /\ IsArray(Posts[i].body.v.data)
          /\ Len(Posts[i].body.v.data.v) = 1
    /\ result # NoResult /\ Len(Posts) > 0 => "settled" \in DOMAIN Posts[1]

\* an invocation whose only POST threw has returned a failure
C4_Witness ==
    /\ pc = "send_returned"
    /\ Len(Posts) = 1
    /\ Posts[1].settled.kind = "throws"
    /\ result.success = B(FALSE)

\* the deployment sets no dataset id or no access token
NotConfigured ==
    ~Truthy(env.FACEBOOK_DATASET_ID) \/ ~Truthy(env.FACEBOOK_ACCESS_TOKEN)

\* C5: when the dataset id or the access token is not configured, sendServerEvent
\* returns a failure carrying a configuration error and issues no network call (no geo
\* lookup, no POST).
C5_FailsFastWithoutCredentials ==
    NotConfigured =>
        /\ network = <<>>
        /\ result # NoResult =>
              /\ result.success = B(FALSE)
              /\ result.error = Text("Missing Facebook API credentials on server.")

\* the POST threw, or its response body could not be parsed
PostRaised ==
    /\ result # NoResult
    /\ Len(Posts) > 0
    /\ "settled" \in DOMAIN Posts[Len(Posts)]
    /\ \/ Posts[Len(Posts)].settled.kind = "throws"
       \/ Posts[Len(Posts)].settled.body = Unparseable

\* C6: an exception raised by the POST or by parsing its response is caught inside
\* sendServerEvent and returned as {success:false, error: message, event_id}, the
\* event id being the caller's or 'N/A'; sendServerEvent does not throw.
C6_ExceptionsBecomeOutcomes ==
    /\ Done("post_issued") => thrown = NoError /\ pc # "send_threw"
    /\ PostRaised =>
          /\ DOMAIN result = {"success", "error", "event_id"}
          /\ result.success = B(FALSE)
          /\ IsString(result.error) /\ Truthy(result.error)
          /\ Posts[Len(Posts)].settled.kind = "throws" =>
                result.error = Posts[Len(Posts)].settled.message
          /\ result.event_id = IF Truthy(call.eventId) THEN call.eventId ELSE Text("N/A")

\* an unparseable 2xx body of an event sent without an id has become an error outcome
C6_Witness ==
    /\ PostRaised
    /\ Posts[1].settled.kind = "response"
    /\ Posts[1].settled.ok
    /\ call.eventId = Undefined
    /\ result.error = Text("Unexpected token in JSON")
    /\ result.event_id = Text("N/A")

ExceptionRaised ==
    \/ request.body = Unparseable
    \/ request.body = Null
    \/ /\ IsObject(request.body)
       /\ request.handler = "AddPaymentInfo" =>
            Truthy(Get(request.body, "userData")) /\ Truthy(Get(request.body, "customData"))
       /\ validate(request.handler, Get(request.body, "customData")).threw
    \/ thrown # NoError

Degenerate(lookup) ==
    \/ lookup.kind = "throws"
    \/ ~lookup.ok
    \/ /\ IsObject(lookup.body)
       /\ \A k \in {"city", "region_code", "postal", "country_code"} :
            ~Truthy(Get(lookup.body, k))

\* a fragment that carries no geo value
EmptyFragment(fragment) == \A k \in DOMAIN fragment : fragment[k] = Undefined

\* the invocation had no geo data to use: lookup skipped, or settled degenerate
NoGeoData ==
    \/ Done("geo_skipped")
    \/ /\ Len(Lookups) = 1
       /\ "settled" \in DOMAIN Lookups[1]
       /\ Degenerate(Lookups[1].settled)

\* the caller's own identity block cannot be hashed
CallerDataThrows == hashUserDataThrows(Props(call.userData))

C9_Fragments ==
    /\ \A lookup \in GeoLookups :
          /\ ~geoCallsLookup(clientIpAddressOf(request.headers)) =>
                getGeolocationData(clientIpAddressOf(request.headers), lookup) = <<>>
          /\ Degenerate(lookup) =>
                EmptyFragment(getGeolocationData(clientIpAddressOf(request.headers), lookup))
    /\ \A i \in 1..Len(Lookups) :
          "settled" \in DOMAIN Lookups[i] /\ Degenerate(Lookups[i].settled) =>
                EmptyFragment(Lookups[i].geoData.v)
    /\ pc = "send_threw" /\ NoGeoData => CallerDataThrows

C9_Proceeds ==
    /\ pc = "send_entry" => pc' \in {"geo_await", "hash"}
    /\ pc = "send_entry" /\ ~geoCallsLookup(clientIpAddressOf(request.headers)) =>
          pc' = "hash" /\ network' = <<>>
    /\ pc = "geo_await" => pc' = "hash"
    /\ pc = "hash" /\ NoGeoData /\ ~CallerDataThrows => pc' = "post"
    /\ pc = "post" => pc' = "post_await" /\ Len(Posts') = 1

C10_UrlClickIdWins ==
    \A i \in 1..Len(Posts) :
        Truthy(Get(call.urlParameters, "fbclid")) =>
            /\ "fbc" \in DOMAIN PostedUserData(Posts[i])
            /\ PostedUserData(Posts[i]).fbc = Get(call.urlParameters, "fbclid")

\* three different click ids were passed and the one of the URL parameters was POSTed
C10_Witness ==
    /\ Len(Posts) = 1
    /\ Get(call.urlParameters, "fbclid") = S(<<"u", "c">>)
    /\ Get(call.userData, "fbc") = S(<<"b", "c">>)
    /\ Get(call.customData, "fbclid") = S(<<"d", "c">>)
    /\ PostedUserData(Posts[1]).fbc = S(<<"u", "c">>)

\* the identity payload of the request body
BodyUserData == Get(request.body, "userData")

\* the request carries a cookie and a different explicit value for an identity field
CookieAndBodyDiffer(field) ==
    /\ Truthy(request.cookies[field])
    /\ Truthy(Get(BodyUserData, field))
    /\ Get(BodyUserData, field) # request.cookies[field]

\* C11: when a request carries both a _fbc (_fbp) cookie and a different explicit fbc
\* (fbp) in body.userData, and no click id comes with the URL parameters, the fbc (fbp)
\* of the POSTed event is the explicit body value.
C11_ExplicitBodyWins ==
    \A i \in 1..Len(Posts) :
        /\ CookieAndBodyDiffer("fbc") /\ ~Truthy(Get(call.urlParameters, "fbclid")) =>
              Get(O(PostedUserData(Posts[i])), "fbc") = Get(BodyUserData, "fbc")
        /\ CookieAndBodyDiffer("fbp") =>
              Get(O(PostedUserData(Posts[i])), "fbp") = Get(BodyUserData, "fbp")

\* the custom_data block of an issued POST
PostedCustomData(post) == post.body.v.data.v[1].v.custom_data.v

\* C12: the custom_data of every POSTed event holds no fbclid key, whatever value the
\* key had in customData or in the URL parameters (the empty string included) and
\* whether or not it was used as fbc.
C12_NoClickIdForwarded ==
    \A i \in 1..Len(Posts) : "fbclid" \notin DOMAIN PostedCustomData(Posts[i])

\* first entry of x-forwarded-for, trimmed, when the header is there and the entry is
\* not empty
ForwardedFor ==
    IF IsString(request.headers.xForwardedFor)
    THEN S(trim(splitCommaFirst(request.headers.xForwardedFor.v)))
    ELSE Undefined

\* what a header contributes to the event: its value, or nothing
HeaderValue(x) == IF IsString(x) /\ Len(x.v) > 0 THEN x ELSE Undefined

PassThroughFields == {"fbc", "fbp", "client_ip_address", "client_user_agent", "external_id"}

\* C14: once hashUserData has run, each of fbc, fbp, client_ip_address,
\* client_user_agent and external_id is in its output exactly when it is in its input,
\* with the same value.
C14_PassThroughUnchanged ==
    Done("hashed") =>
        \A f \in PassThroughFields :
            /\ f \in DOMAIN local.hashedUserData <=> f \in DOMAIN local.enhancedUserData
            /\ f \in DOMAIN local.enhancedUserData =>
                  local.hashedUserData[f] = local.enhancedUserData[f]

\* a block with an external_id and phone numbers has been hashed: the phones are
\* digests, the external_id is as the caller gave it
C14_Witness ==
    /\ Done("hashed")
    /\ {"external_id", "ph", "fbc"} \subseteq DOMAIN local.hashedUserData
    /\ local.hashedUserData.external_id = L(<<S(<<"A", "1">>)>>)
    /\ IsDigestList(local.hashedUserData.ph)

\* other spellings of the sample values
RawAlternatives ==
    {S(<<"a", "@", "b">>), S(<<"A", "@", "B", " ">>), S(<<"a", "b">>), S(<<" ", "a", "B">>),
     S(<<"1", "9">>), S(<<"(", "1", ")", "9">>), S(<<"9">>)}

\* the digest hashUserData gives a single raw value of a field
DigestOf(field, raw) == hashUserData([f \in {field} |-> L(<<raw>>)])[field].v[1]

\* the sensitive fields of the block that hashUserData has hashed
HashedFields ==
    {f \in SensitiveFields \cap DOMAIN local.enhancedUserData :
        fieldIsHashed(local.enhancedUserData[f])}

\* C15: a hashed element and any other raw value with the same canonical form under
\* the rule of the field have the same digest.
C15_DigestOfCanonicalForm ==
    Done("hashed") =>
        \A f \in HashedFields : \A i \in 1..Len(local.enhancedUserData[f].v) :
            \A raw \in RawAlternatives :
                canonical(f, raw.v) = canonical(f, local.enhancedUserData[f].v[i].v) =>
                    DigestOf(f, raw) = local.hashedUserData[f].v[i]

\* the e-mail ' A@b ' has been hashed to the digest of 'a@b', and the city 'A b' to the
\* digest of 'ab'
C15_Witness ==
    /\ Done("hashed")
    /\ {"em", "ct"} \subseteq HashedFields
    /\ local.enhancedUserData.em = L(<<S(<<" ", "A", "@", "b", " ">>)>>)
    /\ local.hashedUserData.em.v[1] = DigestOf("em", S(<<"a", "@", "b">>))
    /\ local.enhancedUserData.ct = L(<<S(<<"A", " ", "b">>)>>)
    /\ local.hashedUserData.ct.v[1] = DigestOf("ct", S(<<"a", "b">>))

\* the output array of a hashed field has the length of the input array and holds, at
\* each index, the digest of the canonical form of the input element
Elementwise(f) ==
    LET in == local.enhancedUserData[f]
        out == local.hashedUserData[f]
    IN  /\ IsArray(out)
        /\ Len(out.v) = Len(in.v)
        /\ \A i \in 1..Len(in.v) : out.v[i] = getHashedValue(canonical(f, in.v[i].v))

\* C16 as stated: every non-empty sensitive array is hashed element by element, and a
\* sensitive field that is absent or an empty array in the input is absent in the output.
C16_ElementwiseOrAbsent ==
    Done("hashed") =>
        \A f \in SensitiveFields :
            IF f \in HashedFields
            THEN Elementwise(f)
            ELSE Get(O(local.hashedUserData), f) = Undefined

\* C16: every non-empty sensitive array is hashed element by element; a sensitive field
\* that is absent in the input is absent in the output, and an empty array is returned
\* as it came.
C16_ElementwiseOrUntouched ==
    Done("hashed") =>
        \A f \in SensitiveFields :
            IF f \in HashedFields
            THEN Elementwise(f)
            ELSE Get(O(local.hashedUserData), f) = Get(O(local.enhancedUserData), f)

\* two phone numbers have become two digests, next to an empty fn array and no em
C16_Witness ==
    /\ Done("hashed")
    /\ "ph" \in HashedFields
    /\ Len(local.enhancedUserData.ph.v) = 2
    /\ Len(local.hashedUserData.ph.v) = 2
    /\ local.hashedUserData.ph.v[1] = getHashedValue(<<"1", "9">>)
    /\ Get(O(local.enhancedUserData), "fn") = L(<<>>)
    /\ "em" \notin DOMAIN local.hashedUserData

\* the customData of the request body
BodyCustomData == Get(request.body, "customData")

\* the handlers whose payload carries num_items next to contents
CountingHandlers == {"InitiateCheckout", "AddToWishlist", "AddPaymentInfo", "Purchase"}

\* contents is an array of objects with numeric quantities and num_items is a number
QuantitiesReadable ==
    /\ IsObject(BodyCustomData)
    /\ IsArray(Get(BodyCustomData, "contents"))
    /\ \A i \in 1..Len(Get(BodyCustomData, "contents").v) :
          /\ IsObject(Get(BodyCustomData, "contents").v[i])
          /\ IsNumber(Get(Get(BodyCustomData, "contents").v[i], "quantity"))
    /\ IsNumber(Get(BodyCustomData, "num_items"))

\* the sum of contents[].quantity is not the supplied num_items
NumItemsOff ==
    /\ QuantitiesReadable
    /\ sumQuantity(Get(BodyCustomData, "contents").v) # Get(BodyCustomData, "num_items").v

\* the error strings of a 400 answer
RejectionErrors ==
    IF request.handler = "AddPaymentInfo"
    THEN Get(response.body, "details")
    ELSE Get(response.body, "errors")

\* the handler has answered 400 and nothing was handed to sendServerEvent
Rejected == pc = "responded" /\ response.status = 400 /\ call = NoCall

\* C17: a request to InitiateCheckout, AddToWishlist, AddPaymentInfo or Purchase whose
\* num_items is not exactly the sum of contents[].quantity is rejected by validation,
\* with a non-empty list of error strings.
C17_NumItemsMismatchRejected ==
    request.handler \in CountingHandlers /\ NumItemsOff /\ pc # "handler_entry" =>
        /\ Rejected
        /\ (request.handler = "AddPaymentInfo" => Truthy(BodyUserData)) =>
              IsArray(RejectionErrors) /\ Len(RejectionErrors.v) > 0

\* a Purchase whose only flaw is num_items = 3 for 2 units has been rejected for it
C17_Witness ==
    /\ request.handler = "Purchase"
    /\ NumItemsOff
    /\ Get(BodyCustomData, "num_items") = N(3)
    /\ Rejected
    /\ RejectionErrors = L(<<Text("num_items mismatch")>>)

\* the handlers whose payload carries an aggregate value next to contents
ValueHandlers == {"AddToCart", "AddToWishlist", "InitiateCheckout", "AddPaymentInfo", "Purchase"}

\* contents is a non-empty array of objects with numeric quantity and item_price, and
\* value is a number
TotalsReadable ==
    /\ IsObject(BodyCustomData)
    /\ IsArray(Get(BodyCustomData, "contents"))
    /\ Len(Get(BodyCustomData, "contents").v) > 0
    /\ \A i \in 1..Len(Get(BodyCustomData, "contents").v) :
          /\ IsObject(Get(BodyCustomData, "contents").v[i])
          /\ IsNumber(Get(Get(BodyCustomData, "contents").v[i], "quantity"))
          /\ IsNumber(Get(Get(BodyCustomData, "contents").v[i], "item_price"))
    /\ IsNumber(Get(BodyCustomData, "value"))

\* value is further from the sum of item_price x quantity than 0.01 and than 1% of it
ValueOff ==
    /\ TotalsReadable
    /\ LET total == sumLineTotals(Get(BodyCustomData, "contents").v)
           diff == Abs(Get(BodyCustomData, "value").v * 100 - total)
       IN  diff > 100 /\ 100 * diff > total

\* C18: a request to AddToCart, AddToWishlist, InitiateCheckout, AddPaymentInfo or
\* Purchase whose value is further from the sum of item_price x quantity over contents
\* than the tolerance is rejected by validation; it is never accepted with a warning.
C18_ValueMismatchRejected ==
    request.handler \in ValueHandlers /\ ValueOff /\ pc # "handler_entry" => Rejected

\* the handler gets as far as calling its validator
ValidatorReached ==
    /\ IsObject(request.body)
    /\ request.handler = "AddPaymentInfo" => Truthy(BodyUserData) /\ Truthy(BodyCustomData)

\* C19: whatever customData a request carries, the validator returns a result, either
\* a sanitized payload or a non-empty list of error strings; it never throws, so a
\* handler that answers without having called sendServerEvent answers 400.
C19_ValidatorsReturn ==
    ValidatorReached /\ pc # "handler_entry" =>
        LET validation == validate(request.handler, BodyCustomData)
        IN  /\ ~validation.threw
            /\ validation.isValid \/ Len(validation.errors.v) > 0
            /\ call = NoCall => Rejected

\* an element of contents as the product schema wants it
WellFormedItem(item) ==
    /\ IsObject(item)
    /\ IsString(Get(item, "id")) /\ Len(Get(item, "id").v) > 0
    /\ IsNumber(Get(item, "quantity"))
    /\ isInteger(Get(item, "quantity")) /\ Get(item, "quantity").v > 0
    /\ IsNumber(Get(item, "item_price")) /\ Get(item, "item_price").v >= 0

\* C20: the sanitized payload a validator returned with isValid = true, which the
\* handler hands to sendServerEvent, has in contents only elements with a non-empty
\* string id, a positive integer quantity and a non-negative numeric item_price.
C20_SanitizedContentsWellFormed ==
    call # NoCall /\ Truthy(Get(call.customData, "contents")) =>
        /\ IsArray(Get(call.customData, "contents"))
        /\ \A i \in 1..Len(Get(call.customData, "contents").v) :
              WellFormedItem(Get(call.customData, "contents").v[i])

\* the event of an issued POST
PostedEvent(post) == post.body.v.data.v[1]

\* the identifier the request body carries for the event, if any
SuppliedEventId == Get(request.body, eventIdKey(request.handler))

\* 8-4-4-4-12 characters separated by dashes
UUIDShaped(x) ==
    /\ IsString(x)
    /\ Len(x.v) = 36
    /\ \A i \in 1..36 : (x.v[i] = "-") <=> (i \in {9, 14, 19, 24})

\* C21: every POSTed event carries an event_id: the identifier of the request when it
\* has one, otherwise an identifier generated for it (UUID-shaped), never a value that
\* requests without identifier share.
C21_EventIdSuppliedOrGenerated ==
    \A i \in 1..Len(Posts) :
        LET id == Get(PostedEvent(Posts[i]), "event_id")
        IN  IF Truthy(SuppliedEventId) THEN id = SuppliedEventId ELSE UUIDShaped(id)

\* C22 as stated: the event_time of every POSTed event is the override whenever an
\* override was passed to sendServerEvent, and the clock of the request otherwise.
C22_OverrideAlwaysWins ==
    \A i \in 1..Len(Posts) :
        Get(PostedEvent(Posts[i]), "event_time") =
            IF call.event_time_override # Undefined
            THEN call.event_time_override
            ELSE N(request.now)

\* C22: the event_time of every POSTed event is the override when a non-zero override
\* was passed to sendServerEvent; with no override, or an override of 0, it is the
\* clock of the request in whole seconds.
C22_NonZeroOverrideWins ==
    \A i \in 1..Len(Posts) :
        Get(PostedEvent(Posts[i]), "event_time") =
            IF IsNumber(call.event_time_override) /\ call.event_time_override.v # 0
            THEN call.event_time_override
            ELSE N(request.now)

\* an event has been POSTed with the override 1700 although the clock says 1000
C22_Witness ==
    /\ Len(Posts) = 1
    /\ call.event_time_override = N(1700)
    /\ request.now = 1000
    /\ Get(PostedEvent(Posts[1]), "event_time") = N(1700)

\* the webhook payload parsed to an object whose event type is not a purchase confirmation
NotAPurchase ==
    /\ request.handler \in {"CaktoWebhook", "KiwifyWebhook"}
    /\ IsObject(request.body)
    /\ Get(request.body, "event") # Text("purchase_approved")

\* C23: a webhook payload whose event type is not a purchase confirmation is answered
\* with a neutral 200, and neither sendServerEvent nor a geo lookup is invoked: no
\* call is made and nothing is sent on the network.
C23_NonPurchaseNotProcessed ==
    NotAPurchase =>
        /\ call = NoCall
        /\ network = <<>>
        /\ pc \in {"handler_entry", "responded"}
        /\ pc = "responded" =>
              /\ response.status = 200
              /\ request.handler = "CaktoWebhook" =>
                    Get(response.body, "message") = Text("Event type not processed")

\* a refused purchase of a customer with an IP, on a deployment with a geo key, has
\* been answered 200 without any fetch
C23_Witness ==
    /\ request.handler = "CaktoWebhook"
    /\ NotAPurchase
    /\ Truthy(Get(Get(Get(request.body, "data"), "customer"), "ip"))
    /\ Truthy(IPDATA_API_KEY)
    /\ pc = "responded"
    /\ response.status = 200
    /\ network = <<>>

\* the customer IP embedded in the webhook payload
CustomerIp == Get(Get(Get(request.body, "data"), "customer"), "ip")

GeoFields == {"ct", "st", "zp", "country"}

\* what hashUserData answers for one field of a block
HashedOrAbsent(field, x) == IF fieldIsHashed(x) THEN hashField(field, x) ELSE Undefined

\* C24: for a purchase-confirmation webhook every geo lookup is made on the customer IP
\* of the payload, and the city, state, postal code and country of the POSTed event are
\* the hashes of what the adapter derived from that lookup, not of the result of a
\* lookup on the address the webhook request came from.
C24_GeoFromCustomerIp ==
    request.handler = "CaktoWebhook" =>
        /\ \A i \in 1..Len(Lookups) : Lookups[i].ip = CustomerIp
        /\ \A i \in 1..Len(Posts) : \A f \in GeoFields :
              Get(O(PostedUserData(Posts[i])), f) = HashedOrAbsent(f, Get(call.userData, f))

\* the requests in flight: the running one, then the suspended ones
InFlight ==
    <<Context(pc, request, call, local, network, trail, result, thrown, response)>> \o parked

PostsOf(c) == SelectSeq(c.network, LAMBDA n : n.kind = "post")

\* what the request's own geo lookup returned, nothing when it made none
GeoDataOf(c) ==
    LET lookups == SelectSeq(c.network, LAMBDA n : n.kind = "geo")
    IN  IF Len(lookups) > 0 /\ "geoData" \in DOMAIN lookups[1] THEN lookups[1].geoData.v ELSE <<>>

\* the arguments the handler passes to sendServerEvent, from the request alone
CallAlone(rq) ==
    [eventName |-> rq.handler,
     userData |-> O(userDataForFbeventsOf(Get(rq.body, "userData"), rq.cookies)),
     customData |-> validate(rq.handler, Get(rq.body, "customData")).sanitizedData,
     eventSourceUrl |-> Get(rq.body, "eventSourceUrl"),
     eventId |-> Or(Get(rq.body, "eventId"), Text("N/A")),
     urlParameters |-> Get(rq.body, "urlParameters"),
     event_time_override |-> Undefined]

\* the event the request sends when it is the only one handled
EventAlone(c) ==
    LET args == CallAlone(c.request)
        fbc == fbcValueForUserDataOf(args.userData, args.customData, args.urlParameters)
        enhanced == enhancedUserDataOf(args.userData, clientIpAddressOf(c.request.headers),
                                       c.request.headers.userAgent, fbc)
    IN  toJSON(O(payloadOf(args.eventName,
                           eventTimeOf(args.event_time_override, c.request.now),
                           hashUserData(Merge(enhanced, GeoDataOf(c))),
                           finalCustomDataOf(tempCustomDataOf(args.customData),
                                             tempUrlParamsOf(args.urlParameters)),
                           args.eventSourceUrl, args.eventId)))

\* the request is where, and has sent and answered what, it would have alone
HandledAlone(c) ==
    /\ c.call # NoCall => c.call = CallAlone(c.request)
    /\ Len(c.trail) > 0 => c.local.clientIpAddress = clientIpAddressOf(c.request.headers)
    /\ \A i \in 1..Len(PostsOf(c)) : PostedEvent(PostsOf(c)[i]) = EventAlone(c)
    /\ (\E i \in 1..Len(c.trail) : c.trail[i] = "post_issued") => Len(PostsOf(c)) = 1
    /\ c.result # NoResult /\ Len(PostsOf(c)) = 1 =>
          c.result = outcomeOf(PostsOf(c)[1].settled, EventAlone(c).v)
    /\ c.pc = "responded" /\ c.result # NoResult =>
          c.response = trackResponse(c.result, CallAlone(c.request).eventId)

\* C25: whatever the interleaving of two requests handled by the same process, each
\* one's arguments, outbound event, outcome and response are those it has when handled
\* alone, and each transmits its event, the other carrying the same event_id or not.
C25_RequestsIndependent == \A i \in 1..Len(InFlight) : HandledAlone(InFlight[i])

\* a product view and a purchase carrying the same event_id, interleaved, have both
\* been transmitted, acknowledged and answered 200
C25_Witness ==
    /\ Len(InFlight) = 2
    /\ InFlight[1].request.handler # InFlight[2].request.handler
    /\ \A i \in 1..2 :
          /\ InFlight[i].pc = "responded"
          /\ Len(PostsOf(InFlight[i])) = 1
          /\ Get(PostedEvent(PostsOf(InFlight[i])[1]), "event_id") = S(<<"e", "1">>)
          /\ Len(SelectSeq(InFlight[i].network, LAMBDA n : n.kind = "geo")) = 1
          /\ InFlight[i].result # NoResult
          /\ Truthy(InFlight[i].result.success)
          /\ InFlight[i].response.status = 200

\* C26: handling one event issues at most one geo lookup, on the purchase-webhook path
\* (adapter, then sendServerEvent) as on every other.
C26_AtMostOneGeoLookup == Len(Lookups) <= 1

\* the keys of the sanitized payload handed to sendServerEvent that hold a value
SanitizedKeys == {k \in DOMAIN Props(call.customData) : call.customData.v[k] # Undefined}

\* C27: for every key of the sanitized payload a handler hands to sendServerEvent, the
\* custom_data of the POSTed event holds the sanitized value, whatever the caller put
\* in urlParameters.
C27_ValidatedFieldsKept ==
    call # NoCall =>
        \A i \in 1..Len(Posts) : \A k \in SanitizedKeys :
            Get(O(PostedCustomData(Posts[i])), k) = toJSON(call.customData.v[k])

\* the fragment the geo lookup of this invocation returned
LookupFragment == Lookups[1].geoData

\* C28: when the caller supplied a city, state, postal code or country and the geo
\* lookup has completed without a value for that field, the POSTed identity block still
\* holds the hash of the caller's value.
C28_GeoNeverRemoves ==
    \A i \in 1..Len(Posts) : \A f \in GeoFields :
        /\ fieldIsHashed(Get(call.userData, f))
        /\ Len(Lookups) = 1
        /\ ~Truthy(Get(LookupFragment, f))
        => Get(O(PostedUserData(Posts[i])), f) = hashField(f, Get(call.userData, f))

\* C29: the sanitized payload an InitiateCheckout, AddToWishlist, AddPaymentInfo or
\* Purchase validator returned with isValid = true, which the handler hands to
\* sendServerEvent, has a num_items equal to the sum of its contents[].quantity.
C29_SanitizedTotalsAgree ==
    call # NoCall /\ request.handler \in CountingHandlers =>
        sumQuantity(Get(call.customData, "contents").v) = Get(call.customData, "num_items").v

\* the outcome has the property and it holds a value (null included)
Carries(outcome, key) == key \in DOMAIN outcome /\ outcome[key] # Undefined

\* C30: an outcome returned by sendServerEvent never carries both an error and a warning;
\* with success = true it carries neither and the POST was answered with a 2xx status;
\* with success = false it carries exactly one of the two.
C30_OutcomeWellFormed ==
    result # NoResult =>
        /\ result.success \in {B(TRUE), B(FALSE)}
        /\ ~(Carries(result, "error") /\ Carries(result, "warning"))
        /\ result.success = B(TRUE) =>
              /\ ~Carries(result, "error") /\ ~Carries(result, "warning")
              /\ PostAnswered /\ Answer.ok
        /\ result.success = B(FALSE) =>
              Carries(result, "error") \/ Carries(result, "warning")

\* a 2xx answer confirmed by its received count alone has been reported as a success
C30_Witness ==
    /\ PostAnswered
    /\ Answer.ok
    /\ Answer.body = O([events_received |-> N(1)])
    /\ result.success = B(TRUE)
    /\ DOMAIN result = {"success", "fbtrace_id", "event_id"}

=============================================================================
